---- MODULE Spec2Model ----
(***************************************************************************)
(* Model of the Feishu websocket transport: FeishuWsClient (connection     *)
(* state machine, keep-alive, reconnect, event dispatch) in                *)
(* src/src/feishu/outbound.ts and WsDataCache (chunk reassembly) in        *)
(* src/src/feishu/ws-data-cache.ts.                                        *)
(*                                                                         *)
(* One action is one run-to-completion turn of the JavaScript event loop:  *)
(* an external call, the completion of the negotiation fetch, a socket     *)
(* event, or a timer firing, together with every promise continuation that *)
(* the turn makes runnable.                                                *)
(***************************************************************************)
EXTENDS Integers, Sequences, FiniteSets, Bags, TLC

\* ---------------------------------------------------------------- bounds
MaxSockets == 2          \* sockets that exist at the same time
MaxTimers == 2           \* timers pending at the same time
MaxCalls == 2            \* negotiation requests in flight at the same time
MaxReconnectCount == 2   \* cap of the attempt counter
RandomDenominator == 2   \* Math.random() is drawn from k / RandomDenominator
MaxSum == 2              \* largest chunk count a mergeData call announces
MaxTime == 4             \* the clock stops after MaxTime ticks
TicksPerTtl == 2         \* clock ticks per cache TTL
MaxDeliveries == 3       \* chunk deliveries of one message that are followed
MaxPending == 2          \* handler invocations awaiting their result
MaxRequests == 2         \* calls of FeishuClient.request

\* ------------------------------------------------------- program constants
DefaultPingSeconds == 120
DefaultReconnectLimit == -1
DefaultReconnectSeconds == 120
DefaultNonceSeconds == 30
DefaultReconnectMs == 120000
DefaultNonceMs == 30000
DefaultPingMs == 120000
MsPerSecond == 1000
FRAME_TYPE_CONTROL == 0
FRAME_TYPE_DATA == 1
STATUS_OK == 200

HEADER_TYPE == <<116, 121, 112, 101>>                                \* "type"
HEADER_MESSAGE_ID == <<109, 101, 115, 115, 97, 103, 101, 95, 105, 100>>  \* "message_id"
HEADER_SUM == <<115, 117, 109>>                                      \* "sum"
HEADER_SEQ == <<115, 101, 113>>                                      \* "seq"
HEADER_TRACE_ID == <<116, 114, 97, 99, 101, 95, 105, 100>>           \* "trace_id"
HEADER_BIZ_RT == <<98, 105, 122, 95, 114, 116>>                      \* "biz_rt"
MESSAGE_EVENT == <<101, 118, 101, 110, 116>>                         \* "event"
MESSAGE_PING == <<112, 105, 110, 103>>                               \* "ping"
MESSAGE_PONG == <<112, 111, 110, 103>>                               \* "pong"

\* An optional value: None for null / undefined / an absent field.
None == <<>>
Some(x) == <<x>>
\* `a ?? b`
Coalesce(a, b) == IF a = None THEN b ELSE a[1]

\* ------------------------------------------------------------ ws-proto.ts
\* Bytes are 0..255, a Uint8Array is a sequence of bytes, offsets count from
\* 0 as in the source. A string is the sequence of its code points.
WIRE_VARINT == 0
WIRE_LEN == 2
\* U+FFFD, what a malformed sequence decodes to
ReplacementChar == <<65533>>[1]
\* U+FEFF
ByteOrderMark == <<65279>>[1]

IsContinuation(b) == b >= 128 /\ b < 192
IsSurrogate(c) == c >= 55296 /\ c <= 57343

\* TextEncoder.encode of one code point (a lone surrogate becomes U+FFFD)
EncodeCodePoint(c) ==
  LET u == IF IsSurrogate(c) THEN ReplacementChar ELSE c
  IN IF u < 128 THEN <<u>>
     ELSE IF u < 2048 THEN <<192 + (u \div 64), 128 + (u % 64)>>
     ELSE <<224 + (u \div 4096), 128 + ((u \div 64) % 64), 128 + (u % 64)>>

RECURSIVE encodeString(_)
encodeString(value) ==
  IF value = <<>> THEN <<>>
  ELSE EncodeCodePoint(Head(value)) \o encodeString(Tail(value))

\* UTF-8 decoding from position i (1-based) on: a malformed byte yields
\* U+FFFD and decoding resumes at the next byte.  A run of bytes below 128
\* decodes to itself and is taken in one step.
RECURSIVE DecodeUtf8(_, _)
DecodeUtf8(bytes, i) ==
  IF i > Len(bytes) THEN <<>>
  ELSE LET b == bytes[i]
           plain == IF \A k \in i..Len(bytes) : bytes[k] < 128 THEN Len(bytes) + 1
                    ELSE CHOOSE k \in i..Len(bytes) :
                           bytes[k] >= 128 /\ \A j \in i..(k - 1) : bytes[j] < 128
           has1 == i + 1 <= Len(bytes) /\ IsContinuation(bytes[i + 1])
           has2 == has1 /\ i + 2 <= Len(bytes) /\ IsContinuation(bytes[i + 2])
           two == ((b - 192) * 64) + (bytes[i + 1] - 128)
           three == ((b - 224) * 4096) + ((bytes[i + 1] - 128) * 64) + (bytes[i + 2] - 128)
       IN IF b < 128 THEN SubSeq(bytes, i, plain - 1) \o DecodeUtf8(bytes, plain)
          ELSE IF b >= 194 /\ b < 224 /\ has1
            THEN <<two>> \o DecodeUtf8(bytes, i + 2)
          ELSE IF b >= 224 /\ b < 240 /\ has2 /\ three >= 2048 /\ ~IsSurrogate(three)
            THEN <<three>> \o DecodeUtf8(bytes, i + 3)
          ELSE <<ReplacementChar>> \o DecodeUtf8(bytes, i + 1)

\* TextDecoder("utf-8").decode: a leading byte order mark is dropped.
decodeString(value) ==
  LET text == DecodeUtf8(value, 1)
  IN IF text # <<>> /\ Head(text) = ByteOrderMark THEN Tail(text) ELSE text

RECURSIVE concatBuffers(_)
concatBuffers(chunks) ==
  IF chunks = <<>> THEN <<>> ELSE Head(chunks) \o concatBuffers(Tail(chunks))

\* encodeVarint: 7-bit groups, low group first; the last byte is stored
\* into a Uint8Array, which keeps its low 8 bits.
RECURSIVE encodeVarint(_)
encodeVarint(value) ==
  IF value >= 128
  THEN <<(value % 128) + 128>> \o encodeVarint(value \div 128)
  ELSE <<value % 256>>

Thrown == [ok |-> FALSE, value |-> 0, offset |-> 0]

\* decodeVarint: throws when the buffer ends before a byte without the
\* continuation bit.
RECURSIVE DecodeVarintLoop(_, _, _, _)
DecodeVarintLoop(buffer, cursor, result, weight) ==
  IF cursor < Len(buffer)
  THEN LET byte == buffer[cursor + 1]
           r == result + ((byte % 128) * weight)
       IN IF byte < 128
          THEN [ok |-> TRUE, value |-> r, offset |-> cursor + 1]
          ELSE DecodeVarintLoop(buffer, cursor + 1, r, weight * 128)
  ELSE Thrown

decodeVarint(buffer, offset) == DecodeVarintLoop(buffer, offset, 0, 1)

encodeTag(fieldNumber, wireType) == encodeVarint((fieldNumber * 8) + wireType)

ThrownBytes == [ok |-> FALSE, value |-> <<>>, offset |-> 0]

\* readLengthDelimited: throws when the length prefix points past the end
\* of the buffer.
readLengthDelimited(buffer, offset) ==
  LET lengthInfo == decodeVarint(buffer, offset)
      start == lengthInfo.offset
      end == start + lengthInfo.value
  IN IF ~lengthInfo.ok THEN ThrownBytes
     ELSE IF end > Len(buffer) THEN ThrownBytes
     ELSE [ok |-> TRUE, value |-> SubSeq(buffer, start + 1, end), offset |-> end]

WsHeader(key, value) == [key |-> key, value |-> value]

LengthDelimited(fieldNumber, bytes) ==
  encodeTag(fieldNumber, WIRE_LEN) \o encodeVarint(Len(bytes)) \o bytes

encodeHeader(header) ==
  LengthDelimited(1, encodeString(header.key)) \o LengthDelimited(2, encodeString(header.value))

RECURSIVE DecodeHeaderLoop(_, _, _)
DecodeHeaderLoop(buffer, offset, header) ==
  IF offset < Len(buffer)
  THEN LET tagInfo == decodeVarint(buffer, offset)
           fieldNumber == tagInfo.value \div 8
           wireType == tagInfo.value % 8
       IN IF ~tagInfo.ok THEN [ok |-> FALSE, header |-> header]
          ELSE IF wireType = WIRE_LEN
            THEN LET field == readLengthDelimited(buffer, tagInfo.offset)
                 IN IF ~field.ok THEN [ok |-> FALSE, header |-> header]
                    ELSE DecodeHeaderLoop(buffer, field.offset,
                           IF fieldNumber = 1 THEN [header EXCEPT !.key = decodeString(field.value)]
                           ELSE IF fieldNumber = 2
                             THEN [header EXCEPT !.value = decodeString(field.value)]
                           ELSE header)
          ELSE IF wireType = WIRE_VARINT
            THEN LET skipped == decodeVarint(buffer, tagInfo.offset)
                 IN IF ~skipped.ok THEN [ok |-> FALSE, header |-> header]
                    ELSE DecodeHeaderLoop(buffer, skipped.offset, header)
          ELSE [ok |-> TRUE, header |-> header]
  ELSE [ok |-> TRUE, header |-> header]

decodeHeader(buffer) == DecodeHeaderLoop(buffer, 0, WsHeader(<<>>, <<>>))

\* A WsFrame. headers is a sequence (absent and empty are encoded alike);
\* the optional fields are None or Some(value).
WsFrame(seqId, logId, service, method, headers, payload) ==
  [ SeqID |-> seqId, LogID |-> logId, service |-> service, method |-> method,
    headers |-> headers, payloadEncoding |-> None, payloadType |-> None,
    payload |-> payload, LogIDNew |-> None ]

EmptyFrame == WsFrame(0, 0, 0, 0, <<>>, None)

RECURSIVE DecodeFrameLoop(_, _, _)
DecodeFrameLoop(buffer, offset, frame) ==
  IF offset < Len(buffer)
  THEN LET tagInfo == decodeVarint(buffer, offset)
           fieldNumber == tagInfo.value \div 8
           wireType == tagInfo.value % 8
       IN IF ~tagInfo.ok THEN [ok |-> FALSE, frame |-> frame]
          ELSE IF wireType = WIRE_VARINT
            THEN LET field == decodeVarint(buffer, tagInfo.offset)
                 IN IF ~field.ok THEN [ok |-> FALSE, frame |-> frame]
                    ELSE DecodeFrameLoop(buffer, field.offset,
                           CASE fieldNumber = 1 -> [frame EXCEPT !.SeqID = field.value]
                             [] fieldNumber = 2 -> [frame EXCEPT !.LogID = field.value]
                             [] fieldNumber = 3 -> [frame EXCEPT !.service = field.value]
                             [] fieldNumber = 4 -> [frame EXCEPT !.method = field.value]
                             [] OTHER -> frame)
          ELSE IF wireType = WIRE_LEN
            THEN LET field == readLengthDelimited(buffer, tagInfo.offset)
                     header == decodeHeader(field.value)
                 IN IF ~field.ok THEN [ok |-> FALSE, frame |-> frame]
                    ELSE IF fieldNumber = 5 /\ ~header.ok THEN [ok |-> FALSE, frame |-> frame]
                    ELSE DecodeFrameLoop(buffer, field.offset,
                           CASE fieldNumber = 5 ->
                                  [frame EXCEPT !.headers = Append(@, header.header)]
                             [] fieldNumber = 6 ->
                                  [frame EXCEPT !.payloadEncoding = Some(decodeString(field.value))]
                             [] fieldNumber = 7 ->
                                  [frame EXCEPT !.payloadType = Some(decodeString(field.value))]
                             [] fieldNumber = 8 -> [frame EXCEPT !.payload = Some(field.value)]
                             [] fieldNumber = 9 ->
                                  [frame EXCEPT !.LogIDNew = Some(decodeString(field.value))]
                             [] OTHER -> frame)
          ELSE [ok |-> TRUE, frame |-> frame]
  ELSE [ok |-> TRUE, frame |-> frame]

\* decodeFrame: [ok |-> FALSE] stands for a thrown error.
decodeFrame(buffer) == DecodeFrameLoop(buffer, 0, EmptyFrame)

\* A faulty header loop: the headers are written last to first.
RECURSIVE EncodeHeaders_Reversed(_)
EncodeHeaders_Reversed(headers) ==
  IF headers = <<>> THEN <<>>
  ELSE EncodeHeaders_Reversed(Tail(headers)) \o LengthDelimited(5, encodeHeader(Head(headers)))

RECURSIVE EncodeHeaders(_)
EncodeHeaders(headers) ==
  IF headers = <<>> THEN <<>>
  ELSE LengthDelimited(5, encodeHeader(Head(headers))) \o EncodeHeaders(Tail(headers))

\* An optional string field is written when it is set and not empty.
EncodeOptionalString(fieldNumber, field) ==
  IF field # None /\ field[1] # <<>>
  THEN LengthDelimited(fieldNumber, encodeString(field[1]))
  ELSE <<>>

encodeFrame(frame) ==
  encodeTag(1, WIRE_VARINT) \o encodeVarint(frame.SeqID)
    \o encodeTag(2, WIRE_VARINT) \o encodeVarint(frame.LogID)
    \o encodeTag(3, WIRE_VARINT) \o encodeVarint(frame.service)
    \o encodeTag(4, WIRE_VARINT) \o encodeVarint(frame.method)
    \o EncodeHeaders(frame.headers)
    \o EncodeOptionalString(6, frame.payloadEncoding)
    \o EncodeOptionalString(7, frame.payloadType)
    \o (IF frame.payload # None THEN LengthDelimited(8, frame.payload[1]) ELSE <<>>)
    \o EncodeOptionalString(9, frame.LogIDNew)

\* ------------------------------------------------------------------ JSON
\* JSON.parse / JSON.stringify on texts (sequences of code points) made of
\* null, true, false, unsigned integers, strings without escapes, arrays and
\* objects, written without white space.
JNull == [type |-> "null"]
JBool(b) == [type |-> "bool", b |-> b]
JNumber(n) == [type |-> "number", n |-> n]
JString(str) == [type |-> "string", s |-> str]
JArray(items) == [type |-> "array", items |-> items]
JObject(members) == [type |-> "object", members |-> members]

ParseError == [ok |-> FALSE, value |-> JNull, next |-> 0]
Parsed(value, next) == [ok |-> TRUE, value |-> value, next |-> next]

IsDigit(c) == c >= 48 /\ c <= 57

HasAt(text, i, word) ==
  /\ i + Len(word) - 1 <= Len(text)
  /\ SubSeq(text, i, i + Len(word) - 1) = word

\* the digits of a number from position i on: its value and the next position
RECURSIVE ParseDigits(_, _, _)
ParseDigits(text, i, acc) ==
  IF i <= Len(text) /\ IsDigit(text[i])
  THEN ParseDigits(text, i + 1, (acc * 10) + (text[i] - 48))
  ELSE Parsed(JNumber(acc), i)

\* the characters of a string after its opening quote
ParseChars(text, i, acc) ==
  LET quotes == {j \in i..Len(text) : text[j] = 34}
      end == CHOOSE j \in quotes : \A k \in quotes : j <= k
  IN IF quotes = {} THEN ParseError
     ELSE IF \E k \in i..(end - 1) : text[k] < 32 \/ text[k] = 92 THEN ParseError
     ELSE Parsed(JString(acc \o SubSeq(text, i, end - 1)), end + 1)

RECURSIVE ParseValue(_, _)
RECURSIVE ParseElements(_, _, _)
RECURSIVE ParseMembers(_, _, _)

ParseValue(text, i) ==
  IF i > Len(text) THEN ParseError
  ELSE LET c == text[i]
       IN CASE HasAt(text, i, <<110, 117, 108, 108>>) -> Parsed(JNull, i + 4)
            [] HasAt(text, i, <<116, 114, 117, 101>>) -> Parsed(JBool(TRUE), i + 4)
            [] HasAt(text, i, <<102, 97, 108, 115, 101>>) -> Parsed(JBool(FALSE), i + 5)
            [] c = 48 -> Parsed(JNumber(0), i + 1)
            [] IsDigit(c) /\ c # 48 -> ParseDigits(text, i, 0)
            [] c = 34 -> ParseChars(text, i + 1, <<>>)
            [] c = 91 -> IF i + 1 <= Len(text) /\ text[i + 1] = 93
                         THEN Parsed(JArray(<<>>), i + 2)
                         ELSE ParseElements(text, i + 1, <<>>)
            [] c = 123 -> IF i + 1 <= Len(text) /\ text[i + 1] = 125
                          THEN Parsed(JObject(<<>>), i + 2)
                          ELSE ParseMembers(text, i + 1, <<>>)
            [] OTHER -> ParseError

\* the elements of an array, from the position of an element on
ParseElements(text, i, acc) ==
  LET e == ParseValue(text, i)
  IN IF ~e.ok \/ e.next > Len(text) THEN ParseError
     ELSE IF text[e.next] = 93 THEN Parsed(JArray(Append(acc, e.value)), e.next + 1)
     ELSE IF text[e.next] = 44 THEN ParseElements(text, e.next + 1, Append(acc, e.value))
     ELSE ParseError

\* the members of an object, from the position of a key on
ParseMembers(text, i, acc) ==
  IF i > Len(text) \/ text[i] # 34 THEN ParseError
  ELSE LET k == ParseChars(text, i + 1, <<>>)
       IN IF ~k.ok \/ k.next > Len(text) \/ text[k.next] # 58 THEN ParseError
          ELSE LET v == ParseValue(text, k.next + 1)
                   m == Append(acc, [key |-> k.value.s, value |-> v.value])
               IN IF ~v.ok \/ v.next > Len(text) THEN ParseError
                  ELSE IF text[v.next] = 125 THEN Parsed(JObject(m), v.next + 1)
                  ELSE IF text[v.next] = 44 THEN ParseMembers(text, v.next + 1, m)
                  ELSE ParseError

\* JSON.parse(text): [ok |-> FALSE] stands for a thrown SyntaxError.
JsonParse(text) ==
  LET r == ParseValue(text, 1)
  IN IF r.ok /\ r.next = Len(text) + 1 THEN r ELSE ParseError

RECURSIVE Digits(_)
Digits(n) == IF n < 10 THEN <<48 + n>> ELSE Digits(n \div 10) \o <<48 + (n % 10)>>

RECURSIVE JsonStringify(_)
RECURSIVE StringifyItems(_)
RECURSIVE StringifyMembers(_)

JsonStringify(v) ==
  CASE v.type = "null" -> <<110, 117, 108, 108>>
    [] v.type = "bool" -> IF v.b THEN <<116, 114, 117, 101>> ELSE <<102, 97, 108, 115, 101>>
    [] v.type = "number" -> Digits(v.n)
    [] v.type = "string" -> <<34>> \o v.s \o <<34>>
    [] v.type = "array" -> <<91>> \o StringifyItems(v.items) \o <<93>>
    [] v.type = "object" -> <<123>> \o StringifyMembers(v.members) \o <<125>>

StringifyItems(items) ==
  IF items = <<>> THEN <<>>
  ELSE JsonStringify(Head(items))
         \o (IF Len(items) > 1 THEN <<44>> \o StringifyItems(Tail(items)) ELSE <<>>)

StringifyMembers(members) ==
  IF members = <<>> THEN <<>>
  ELSE <<34>> \o Head(members).key \o <<34, 58>> \o JsonStringify(Head(members).value)
         \o (IF Len(members) > 1 THEN <<44>> \o StringifyMembers(Tail(members)) ELSE <<>>)

\* JavaScript truthiness of a JSON value
Truthy(v) ==
  CASE v.type = "null" -> FALSE
    [] v.type = "bool" -> v.b
    [] v.type = "number" -> v.n # 0
    [] v.type = "string" -> v.s # <<>>
    [] OTHER -> TRUE

\* the base64 alphabet
Base64Char(n) ==
  CASE n < 26 -> 65 + n
    [] n >= 26 /\ n < 52 -> 97 + (n - 26)
    [] n >= 52 /\ n < 62 -> 48 + (n - 52)
    [] n = 62 -> 43
    [] OTHER -> 47

\* Buffer.toString("base64")
RECURSIVE Base64(_)
Base64(bytes) ==
  IF bytes = <<>> THEN <<>>
  ELSE IF Len(bytes) = 1
    THEN <<Base64Char(bytes[1] \div 4), Base64Char((bytes[1] % 4) * 16), 61, 61>>
  ELSE IF Len(bytes) = 2
    THEN <<Base64Char(bytes[1] \div 4),
           Base64Char(((bytes[1] % 4) * 16) + (bytes[2] \div 16)),
           Base64Char((bytes[2] % 16) * 4), 61>>
  ELSE <<Base64Char(bytes[1] \div 4),
         Base64Char(((bytes[1] % 4) * 16) + (bytes[2] \div 16)),
         Base64Char(((bytes[2] % 16) * 4) + (bytes[3] \div 64)),
         Base64Char(bytes[3] % 64)>> \o Base64(SubSeq(bytes, 4, Len(bytes)))

\* -------------------------------------------------------- ws-data-cache.ts
ttlMs == 10000

\* A slot of an entry's buffer array: the value undefined, a hole (an index
\* below the array's length that was never written) or a chunk.
Undefined == [k |-> "undefined", d |-> <<>>]
Hole == [k |-> "hole", d |-> <<>>]
Chunk(data) == [k |-> "data", d |-> data]

\* What a JavaScript number that is no array index stands for here: NaN, a
\* negative number or a fraction.
NotAnIndex == 0 - 1

Repeat(x, n) == [i \in 1..n |-> x]

\* A faulty placement: the chunk goes into the first empty slot, in arrival
\* order, whatever its index.
AssignSlot_ArrivalOrder(buffer, seq, data) ==
  LET empty == { i \in 1..Len(buffer) : buffer[i].k = "undefined" }
  IN IF empty = {} THEN buffer
     ELSE [buffer EXCEPT ![CHOOSE i \in empty : \A j \in empty : i <= j] = Chunk(data)]

\* A faulty placement: a slot that holds a chunk keeps it.
AssignSlot_FirstWins(buffer, seq, data) ==
  IF seq < 0 THEN buffer
  ELSE IF seq < Len(buffer)
    THEN IF buffer[seq + 1].k = "data" THEN buffer
         ELSE [buffer EXCEPT ![seq + 1] = Chunk(data)]
  ELSE buffer \o Repeat(Hole, seq - Len(buffer)) \o <<Chunk(data)>>

\* buffer[seq] = data: past the end the array grows and the indices in
\* between become holes; a key that is no index leaves the elements alone.
AssignSlot(buffer, seq, data) ==
  IF seq < 0 THEN buffer
  ELSE IF seq < Len(buffer) THEN [buffer EXCEPT ![seq + 1] = Chunk(data)]
  ELSE buffer \o Repeat(Hole, seq - Len(buffer)) \o <<Chunk(data)>>

\* A faulty completeness test: some() where every() is meant.
EveryBoolean_Some(buffer) == \E i \in 1..Len(buffer) : buffer[i].k # "undefined"

\* buffer.every(Boolean): holes are skipped, undefined is falsy, a
\* Uint8Array is truthy whatever its length.
EveryBoolean(buffer) == \A i \in 1..Len(buffer) : buffer[i].k # "undefined"

\* buffer.reduce(...): the chunks, holes skipped, joined in index order
RECURSIVE ReduceConcat(_)
ReduceConcat(buffer) ==
  IF buffer = <<>> THEN <<>>
  ELSE Head(buffer).d \o ReduceConcat(Tail(buffer))

CacheEntry(buffer, traceId, messageId, createdAt) ==
  [buffer |-> buffer, traceId |-> traceId, messageId |-> messageId, createdAt |-> createdAt]

MapSet(map, key, value) == [k \in DOMAIN map \cup {key} |-> IF k = key THEN value ELSE map[k]]
MapDelete(map, key) == [k \in DOMAIN map \ {key} |-> map[k]]
EmptyMap == [k \in {} |-> 0]

ReturnsNull == [kind |-> "null", value |-> JNull]
Returns(v) == [kind |-> "value", value |-> v]
Throws == [kind |-> "throw", value |-> JNull]

\* mergeData, first part: the map once the chunk is written, into a new
\* entry or into the cached one.
StoreChunk(c, params, t) ==
  IF params.messageId \notin DOMAIN c
  THEN MapSet(c, params.messageId,
         CacheEntry(AssignSlot(Repeat(Undefined, params.sum), params.seq, params.data),
                    params.traceId, params.messageId, t))
  ELSE [c EXCEPT ![params.messageId].buffer = AssignSlot(@, params.seq, params.data)]

\* mergeData, last part: the parsed text is returned and the entry deleted;
\* a text that does not parse throws before the delete.
Deliver(stored, id, parsed) ==
  IF parsed.ok
  THEN [cache |-> MapDelete(stored, id), outcome |-> Returns(parsed.value)]
  ELSE [cache |-> stored, outcome |-> Throws]

\* mergeData, middle part: null while a slot is missing, else the chunks
\* are joined, decoded and parsed.
Assemble(stored, id) ==
  IF EveryBoolean(stored[id].buffer)
  THEN Deliver(stored, id, JsonParse(decodeString(ReduceConcat(stored[id].buffer))))
  ELSE [cache |-> stored, outcome |-> ReturnsNull]

\* mergeData(params) at time t on the map c: the map afterwards and the
\* outcome (null, a parsed value, or a thrown error). `new Array(sum)` throws
\* for a sum that is no array length.
mergeData(c, params, t) ==
  IF params.messageId \notin DOMAIN c /\ params.sum < 0
  THEN [cache |-> c, outcome |-> Throws]
  ELSE Assemble(StoreChunk(c, params, t), params.messageId)

\* The age test of the sweep, `now - createdAt > ttlMs`, on a clock that
\* counts ticks of ttlMs / TicksPerTtl milliseconds.
Expired(entry, t) == (t - entry.createdAt) * ttlMs > ttlMs * TicksPerTtl

\* the callback of clearExpired's interval timer
clearExpired(c, t) == [k \in { j \in DOMAIN c : ~Expired(c[j], t) } |-> c[k]]

SocketIds == 1..MaxSockets

\* ClientConfig objects a negotiation response may carry (values in seconds;
\* every field is optional).
ClientConfig(p, c, i, n) ==
  [PingInterval |-> p, ReconnectCount |-> c, ReconnectInterval |-> i, ReconnectNonce |-> n]

ClientConfigs ==
  { ClientConfig(None, None, None, None),
    ClientConfig(Some(1), Some(1), Some(1), Some(2)) }

VARIABLES
  autoReconnect,   \* config.autoReconnect
  eventHandler,    \* a handler is registered
  stopped,
  ws,              \* this.ws: a socket id, 0 for null
  reconnectCount,
  wsConfig,        \* this.wsConfig: None for null, else Some(record)
  sockets,         \* the sockets the client has created
  negotiating,     \* pullConnectConfig calls awaiting their response
  timers,          \* pending setTimeout timers: a bag of [kind, delay, held],
                   \* held = this.pingTimer / this.reconnectTimer is its handle
  step,            \* the turn that led to this state
  sent,            \* frames handed to ws.send during that turn
  cache,           \* WsDataCache.cache: message id -> entry
  now,             \* Date.now(), in clock ticks
  nextSweep,       \* when the interval timer of clearExpired is due next
  merged,          \* the mergeData call of that turn and its outcome
  pending,         \* handler invocations awaiting their result
  handlerCalls,    \* per message id, how often the handler was invoked (up to 2)
  settled,         \* the handler invocation that settled in that turn, with its result
  io,              \* a library function's input and, once applied, its result
  tokenCache,      \* FeishuClient.tokenCache: None for null, else Some(record)
  requests,        \* per FeishuClient.request call, the await it stands at
  fetches          \* the fetch calls FeishuClient has made, oldest first

connVars == <<autoReconnect, eventHandler, stopped, ws,
              reconnectCount, wsConfig, sockets, negotiating, timers, step, sent,
              settled>>

cacheVars == <<cache, now, nextSweep, merged>>

tokenVars == <<tokenCache, requests, fetches>>

eventVars == <<cacheVars, pending, handlerCalls, io, tokenVars>>

vars == <<connVars, eventVars>>

\* the client's own fields and what it has in flight
connState == <<autoReconnect, eventHandler, stopped, ws, reconnectCount, wsConfig, sockets,
               negotiating, timers>>

FreeSocket == [state |-> "free", awaited |-> FALSE]

\* readyState of a socket: 0 CONNECTING, 1 OPEN, 2 CLOSING, 3 CLOSED
ReadyState(sock) ==
  CASE sock.state = "connecting" -> 0
    [] sock.state = "open" -> 1
    [] sock.state = "closing" -> 2
    [] OTHER -> 3

Timer(kind, delay, held) == [kind |-> kind, delay |-> delay, held |-> held]

\* The pending timer this.pingTimer / this.reconnectTimer refers to, as a
\* set: empty when the handle is null or its timer has fired or was cleared.
HeldTimers(ts, kind) == { t \in BagToSet(ts) : t.kind = kind /\ t.held }

pingTimer == HeldTimers(timers, "ping")
reconnectTimer == HeldTimers(timers, "reconnect")

\* clearTimeout(this.pingTimer) / clearTimeout(this.reconnectTimer): a
\* handle that is null or whose timer is no longer pending clears nothing.
ClearTimeout(ts, kind) == ts (-) SetToBag(HeldTimers(ts, kind))

\* handle = setTimeout(..., delay): the timer the handle referred to so far
\* stays pending, without a handle.
SetTimeout(ts, kind, delay) ==
  LET old == HeldTimers(ts, kind)
      released == { [t EXCEPT !.held = FALSE] : t \in old }
  IN ((ts (-) SetToBag(old)) (+) SetToBag(released)) (+) SetToBag({Timer(kind, delay, TRUE)})

CanSetTimeout(ts) == BagCardinality(ts) < MaxTimers

RandomDraws == 0..(RandomDenominator - 1)

\* getReconnectDelay, with Math.random() = k / RandomDenominator
getReconnectDelay(cfg, k) ==
  LET base == IF cfg = None THEN DefaultReconnectMs ELSE cfg[1].reconnectInterval
      jitter == IF cfg = None THEN DefaultNonceMs ELSE cfg[1].reconnectNonce
  IN base + ((k * jitter) \div RandomDenominator)

\* The WsConnectConfig pullConnectConfig stores for a successful response.
ConnectConfig(cc) ==
  [ connectUrl |-> "wss://x?device_id=5&service_id=9",
    deviceId |-> <<53>>,
    serviceId |-> <<57>>,
    pingInterval |-> Coalesce(cc.PingInterval, DefaultPingSeconds) * MsPerSecond,
    reconnectCount |-> Coalesce(cc.ReconnectCount, DefaultReconnectLimit),
    reconnectInterval |-> Coalesce(cc.ReconnectInterval, DefaultReconnectSeconds) * MsPerSecond,
    reconnectNonce |-> Coalesce(cc.ReconnectNonce, DefaultNonceSeconds) * MsPerSecond ]

\* Number(text) for a text of digits; the empty text gives 0 and any other
\* text NaN, which is no index.
RECURSIVE DigitsValue(_, _)
DigitsValue(text, acc) ==
  IF text = <<>> THEN acc ELSE DigitsValue(Tail(text), (acc * 10) + (Head(text) - 48))

NumberOf(text) ==
  IF \A i \in 1..Len(text) : IsDigit(text[i]) THEN DigitsValue(text, 0) ELSE NotAnIndex

\* the frame startPing sends
PingFrame(cfg) ==
  WsFrame(0, 0, IF cfg = None THEN 0 ELSE NumberOf(cfg[1].serviceId), FRAME_TYPE_CONTROL,
          <<WsHeader(HEADER_TYPE, MESSAGE_PING)>>, None)

\* sendFrame: the encoded frame goes out on this.ws, and only when that
\* socket is OPEN.
sendFrame(w, socks, frame) ==
  IF w # 0 /\ ReadyState(socks[w]) = 1
  THEN <<[socket |-> w, data |-> encodeFrame(frame)]>>
  ELSE <<>>

\* ---------------------------------------------- what a socket may deliver
EventIds == {<<109, 49>>, <<109, 50>>}   \* "m1", "m2"

EventFrame(id, sum, seq, payload) ==
  WsFrame(1, 2, 9, FRAME_TYPE_DATA,
          <<WsHeader(HEADER_TYPE, MESSAGE_EVENT), WsHeader(HEADER_MESSAGE_ID, id)>>
            \o (IF sum = None THEN <<>> ELSE <<WsHeader(HEADER_SUM, sum[1])>>)
            \o (IF seq = None THEN <<>> ELSE <<WsHeader(HEADER_SEQ, seq[1])>>)
            \o <<WsHeader(HEADER_TRACE_ID, <<116, 49>>)>>,
          Some(payload))

ControlFrame(type, payload) ==
  WsFrame(0, 0, 9, FRAME_TYPE_CONTROL, <<WsHeader(HEADER_TYPE, type)>>, payload)

\* the whole message "m1" ("[]") in one frame, without sum and seq headers
WholeEvent == EventFrame(<<109, 49>>, None, None, <<91, 93>>)
\* the message "m2" in two chunks, "[" and "]"
FirstChunk == EventFrame(<<109, 50>>, Some(<<50>>), Some(<<48>>), <<91>>)
SecondChunk == EventFrame(<<109, 50>>, Some(<<50>>), Some(<<49>>), <<93>>)
\* a message whose payload "]" is no JSON text
BadEvent == EventFrame(<<109, 49>>, Some(<<49>>), Some(<<48>>), <<93>>)
\* a pong carrying {"PingInterval":2}
Pong ==
  ControlFrame(MESSAGE_PONG,
    Some(<<123, 34, 80, 105, 110, 103, 73, 110, 116, 101, 114, 118, 97, 108, 34, 58, 50, 125>>))

Binary(bytes) == [binary |-> TRUE, bytes |-> bytes]

\* a buffer without its last byte
Truncated(bytes) == SubSeq(bytes, 1, Len(bytes) - 1)

InboundMessages ==
  { Binary(encodeFrame(WholeEvent)),
    Binary(encodeFrame(FirstChunk)),
    Binary(encodeFrame(SecondChunk)),
    Binary(encodeFrame(BadEvent)),
    Binary(encodeFrame(Pong)),
    Binary(encodeFrame(ControlFrame(MESSAGE_PING, None))),
    \* the payload's length prefix points past the end
    Binary(Truncated(encodeFrame(WholeEvent))),
    \* a tag whose varint value never ends
    Binary(encodeFrame(WholeEvent) \o <<8, 128>>),
    \* a text message
    [binary |-> FALSE, bytes |-> <<>>] }

\* decodeFrame on each of them
Decoded == [msg \in InboundMessages |-> decodeFrame(msg.bytes)]

\* what the handler's promise settles to: a value (truthy or falsy), nothing,
\* or a rejection
HandlerResults == {Returns(JArray(<<>>)), Returns(JNumber(0)), ReturnsNull, Throws}

\* the calls of FeishuClient.request
RequestIds == 1..MaxRequests

\* a call of request() that has not been made yet
NotIssued == [stage |-> "idle", token |-> <<>>]

\* The clients and the cache after construction.
Constructed ==
  /\ autoReconnect \in BOOLEAN
  /\ eventHandler = FALSE
  /\ stopped = FALSE
  /\ ws = 0
  /\ reconnectCount = 0
  /\ wsConfig = None
  /\ sockets = [s \in SocketIds |-> FreeSocket]
  /\ negotiating = 0
  /\ timers = EmptyBag
  /\ step = "init"
  /\ sent = <<>>
  /\ cache = EmptyMap
  /\ now = 0
  /\ nextSweep = TicksPerTtl
  /\ merged = None
  /\ pending = <<>>
  /\ handlerCalls = [m \in EventIds |-> 0]
  /\ settled = None
  /\ tokenCache = None
  /\ requests = [r \in RequestIds |-> NotIssued]
  /\ fetches = <<>>

Init == Constructed /\ io = None

\* start(handler): registers the handler, clears `stopped`, and runs
\* reconnect(true) up to the fetch of pullConnectConfig.
Start ==
  /\ negotiating < MaxCalls
  /\ eventHandler' = TRUE
  /\ stopped' = FALSE
  /\ reconnectCount' = 0
  /\ negotiating' = negotiating + 1
  /\ step' = "start"
  /\ UNCHANGED eventVars
  /\ sent' = <<>>
  /\ settled' = None
  /\ UNCHANGED <<autoReconnect, ws, wsConfig, sockets, timers>>

\* A faulty stop(): the socket handle is not reset.
Stop_KeepsHandle ==
  /\ stopped' = TRUE
  /\ timers' = ClearTimeout(ClearTimeout(timers, "ping"), "reconnect")
  /\ sockets' = IF ws # 0 /\ sockets[ws].state \in {"connecting", "open"}
                THEN [sockets EXCEPT ![ws].state = "closing"]
                ELSE sockets
  /\ ws' = ws
  /\ step' = "stop"
  /\ UNCHANGED eventVars
  /\ sent' = <<>>
  /\ settled' = None
  /\ UNCHANGED <<autoReconnect, eventHandler, reconnectCount, wsConfig, negotiating>>

\* stop()
Stop ==
  /\ stopped' = TRUE
  /\ timers' = ClearTimeout(ClearTimeout(timers, "ping"), "reconnect")
  /\ sockets' = IF ws # 0 /\ sockets[ws].state \in {"connecting", "open"}
                THEN [sockets EXCEPT ![ws].state = "closing"]
                ELSE sockets
  /\ ws' = 0
  /\ step' = "stop"
  /\ UNCHANGED eventVars
  /\ sent' = <<>>
  /\ settled' = None
  /\ UNCHANGED <<autoReconnect, eventHandler, reconnectCount, wsConfig, negotiating>>

\* A faulty tail of reconnect(): the retry is scheduled whatever the
\* auto-reconnect setting.
ScheduleRetry_Always(ts, cfg, k) == SetTimeout(ts, "reconnect", getReconnectDelay(cfg, k))

\* The tail of reconnect() after `connected` turned out false: with
\* auto-reconnect a retry timer is set, its handle stored in reconnectTimer.
ScheduleRetry(ts, cfg, k) ==
  IF autoReconnect
  THEN SetTimeout(ts, "reconnect", getReconnectDelay(cfg, k))
  ELSE ts

CanScheduleRetry(ts) == autoReconnect => CanSetTimeout(ts)

\* pullConnectConfig gets a successful response: the session config is
\* stored and connect() creates the socket and makes it this.ws.
NegotiationOk ==
  /\ negotiating > 0
  /\ \E cc \in ClientConfigs, s \in SocketIds :
       /\ sockets[s].state = "free"
       /\ \A r \in SocketIds : r < s => sockets[r].state # "free"
       /\ wsConfig' = Some(ConnectConfig(cc))
       /\ sockets' = [sockets EXCEPT ![s] = [state |-> "connecting", awaited |-> TRUE]]
       /\ ws' = s
  /\ negotiating' = negotiating - 1
  /\ step' = "negotiationOk"
  /\ UNCHANGED eventVars
  /\ sent' = <<>>
  /\ settled' = None
  /\ UNCHANGED <<autoReconnect, eventHandler, stopped, reconnectCount, timers>>

\* pullConnectConfig returns false (unparseable response, error status, no
\* URL): reconnect() goes on to schedule the retry.
NegotiationFails ==
  /\ negotiating > 0
  /\ CanScheduleRetry(timers)
  /\ \E k \in RandomDraws : timers' = ScheduleRetry(timers, wsConfig, k)
  /\ negotiating' = negotiating - 1
  /\ step' = "negotiationFails"
  /\ UNCHANGED eventVars
  /\ sent' = <<>>
  /\ settled' = None
  /\ UNCHANGED <<autoReconnect, eventHandler, stopped, ws, reconnectCount,
                 wsConfig, sockets>>

\* The fetch of pullConnectConfig rejects (or the URL does not parse): the
\* reconnect() call ends with the exception, nothing is scheduled.
NegotiationThrows ==
  /\ negotiating > 0
  /\ negotiating' = negotiating - 1
  /\ step' = "negotiationThrows"
  /\ UNCHANGED eventVars
  /\ sent' = <<>>
  /\ settled' = None
  /\ UNCHANGED <<autoReconnect, eventHandler, stopped, ws, reconnectCount, wsConfig, sockets, timers>>

\* A faulty startPing: the timer is armed but no ping is sent.
startPing_NoSend(ts, w, socks) ==
  LET interval == IF wsConfig = None THEN DefaultPingMs ELSE wsConfig[1].pingInterval
  IN [timers |-> SetTimeout(ts, "ping", interval), sent |-> <<>>]

\* A faulty startPing: the next ping is always scheduled with the default
\* interval.
startPing_DefaultInterval(ts, w, socks) ==
  [timers |-> SetTimeout(ts, "ping", DefaultPingMs),
   sent |-> sendFrame(w, socks, PingFrame(wsConfig))]

\* startPing: a ping goes out on this.ws and the next ping is scheduled with
\* the interval of the moment; the handle replaces this.pingTimer.
\* Yields the pending timers and the frames sent.
startPing(ts, w, socks) ==
  LET interval == IF wsConfig = None THEN DefaultPingMs ELSE wsConfig[1].pingInterval
  IN [timers |-> SetTimeout(ts, "ping", interval),
      sent |-> sendFrame(w, socks, PingFrame(wsConfig))]

\* "open" event of socket s
SocketOpen(s) ==
  /\ sockets[s].state = "connecting"
  /\ CanSetTimeout(timers)
  /\ LET socks == [sockets EXCEPT ![s] = [state |-> "open", awaited |-> FALSE]]
         p == startPing(timers, ws, socks)
     IN /\ sockets' = socks
        /\ timers' = p.timers
        /\ sent' = p.sent
  /\ settled' = None
  /\ reconnectCount' = 0
  /\ step' = "open"
  /\ UNCHANGED eventVars
  /\ UNCHANGED <<autoReconnect, eventHandler, stopped, ws, wsConfig,
                 negotiating>>

\* "error" event of socket s: the connection has failed, a "close" event
\* follows. While the connect() promise is unresolved it resolves to false
\* and reconnect() goes on to schedule the retry.
SocketError(s) ==
  /\ sockets[s].state \in {"connecting", "open", "closing"}
  /\ sockets' = [sockets EXCEPT ![s] = [state |-> "failed", awaited |-> FALSE]]
  /\ IF sockets[s].awaited
     THEN /\ CanScheduleRetry(timers)
          /\ \E k \in RandomDraws : timers' = ScheduleRetry(timers, wsConfig, k)
     ELSE UNCHANGED timers
  /\ step' = "error"
  /\ UNCHANGED eventVars
  /\ sent' = <<>>
  /\ settled' = None
  /\ UNCHANGED <<autoReconnect, eventHandler, stopped, ws, reconnectCount,
                 wsConfig, negotiating>>

\* The reconnect limit is non-negative and the counter is past it.
LimitReached(cfg, count) ==
  LET limit == IF cfg = None THEN DefaultReconnectLimit ELSE cfg[1].reconnectCount
  IN limit >= 0 /\ count > limit

\* "close" event of socket s: cleanup(), then, unless stopped, the attempt
\* counter goes up and reconnect(false) starts the next negotiation.
SocketClose(s) ==
  /\ sockets[s].state \in {"open", "closing", "failed"}
  /\ sockets' = [sockets EXCEPT ![s] = FreeSocket]
  /\ timers' = ClearTimeout(timers, "ping")
  /\ ws' = 0
  /\ IF stopped
     THEN UNCHANGED <<reconnectCount, negotiating>>
     ELSE /\ reconnectCount < MaxReconnectCount
          /\ reconnectCount' = reconnectCount + 1
          /\ IF LimitReached(wsConfig, reconnectCount + 1)
             THEN UNCHANGED negotiating
             ELSE /\ negotiating < MaxCalls
                  /\ negotiating' = negotiating + 1
  /\ step' = "close"
  /\ UNCHANGED eventVars
  /\ sent' = <<>>
  /\ settled' = None
  /\ UNCHANGED <<autoReconnect, eventHandler, stopped, wsConfig>>

\* A ping timer fires: startPing runs again.
PingTimerFires ==
  \E t \in BagToSet(timers) :
    /\ t.kind = "ping"
    /\ LET p == startPing(timers (-) SetToBag({t}), ws, sockets)
       IN /\ timers' = p.timers
          /\ sent' = p.sent
    /\ settled' = None
    /\ step' = "pingTimer"
    /\ UNCHANGED eventVars
    /\ UNCHANGED <<autoReconnect, eventHandler, stopped, ws, reconnectCount,
                   wsConfig, sockets, negotiating>>

\* A reconnect timer fires: reconnect(false).
ReconnectTimerFires ==
  \E t \in BagToSet(timers) :
    /\ t.kind = "reconnect"
    /\ timers' = timers (-) SetToBag({t})
    /\ IF stopped
       THEN UNCHANGED negotiating
       ELSE /\ negotiating < MaxCalls
            /\ negotiating' = negotiating + 1
    /\ step' = "reconnectTimer"
    /\ UNCHANGED eventVars
    /\ sent' = <<>>
    /\ settled' = None
    /\ UNCHANGED <<autoReconnect, eventHandler, stopped, ws, reconnectCount, wsConfig, sockets>>

\* ------------------------------------------------------- inbound messages
\* headers.find(item => item.key === key)?.value: the first header of the key
RECURSIVE FindHeader(_, _)
FindHeader(headers, key) ==
  IF headers = <<>> THEN None
  ELSE IF Head(headers).key = key THEN Some(Head(headers).value)
  ELSE FindHeader(Tail(headers), key)

\* new Map(headers.map(item => [item.key, item.value])).get(key): a later
\* header of the same key replaces an earlier one
RECURSIVE MapGet(_, _)
MapGet(headers, key) ==
  IF headers = <<>> THEN None
  ELSE IF headers[Len(headers)].key = key THEN Some(headers[Len(headers)].value)
  ELSE MapGet(SubSeq(headers, 1, Len(headers) - 1), key)

\* payload[key] of a parsed pong payload, when it is a number (a later member
\* of the same key wins); None for a missing member and for null
RECURSIVE Member(_, _)
Member(members, key) ==
  IF members = <<>> THEN None
  ELSE LET last == members[Len(members)]
       IN IF last.key = key
          THEN (IF last.value.type = "number" THEN Some(last.value.n) ELSE None)
          ELSE Member(SubSeq(members, 1, Len(members) - 1), key)

PingIntervalKey == <<80, 105, 110, 103, 73, 110, 116, 101, 114, 118, 97, 108>>
ReconnectCountKey == <<82, 101, 99, 111, 110, 110, 101, 99, 116, 67, 111, 117, 110, 116>>
ReconnectIntervalKey ==
  <<82, 101, 99, 111, 110, 110, 101, 99, 116, 73, 110, 116, 101, 114, 118, 97, 108>>
ReconnectNonceKey == <<82, 101, 99, 111, 110, 110, 101, 99, 116, 78, 111, 110, 99, 101>>

\* A faulty update: a hint that is 0 counts as absent.
UpdatedConfig_ZeroIsAbsent(old, m) ==
  LET Hint(key) == IF Member(m, key) = Some(0) THEN None ELSE Member(m, key)
  IN [old EXCEPT
        !.pingInterval =
          Coalesce(Hint(PingIntervalKey), old.pingInterval \div MsPerSecond) * MsPerSecond,
        !.reconnectCount = Coalesce(Hint(ReconnectCountKey), old.reconnectCount),
        !.reconnectInterval =
          Coalesce(Hint(ReconnectIntervalKey), old.reconnectInterval \div MsPerSecond)
            * MsPerSecond,
        !.reconnectNonce =
          Coalesce(Hint(ReconnectNonceKey), old.reconnectNonce \div MsPerSecond)
            * MsPerSecond]

\* The session config with the hints of a pong payload's members applied.
UpdatedConfig(old, m) ==
  [old EXCEPT
     !.pingInterval =
       Coalesce(Member(m, PingIntervalKey), old.pingInterval \div MsPerSecond) * MsPerSecond,
     !.reconnectCount = Coalesce(Member(m, ReconnectCountKey), old.reconnectCount),
     !.reconnectInterval =
       Coalesce(Member(m, ReconnectIntervalKey), old.reconnectInterval \div MsPerSecond)
         * MsPerSecond,
     !.reconnectNonce =
       Coalesce(Member(m, ReconnectNonceKey), old.reconnectNonce \div MsPerSecond)
         * MsPerSecond]

\* handleControlFrame once the pong payload went through JSON.parse: a text
\* that does not parse, and null (whose members cannot be read), throw into
\* the catch.
ApplyPong(cfg, payload) ==
  IF ~payload.ok \/ payload.value.type = "null" THEN cfg
  ELSE IF cfg = None THEN cfg
  ELSE Some(UpdatedConfig(cfg[1],
              IF payload.value.type = "object" THEN payload.value.members ELSE <<>>))

\* handleControlFrame: the session config after a control frame
handleControlFrame(frame, cfg) ==
  IF Coalesce(FindHeader(frame.headers, HEADER_TYPE), <<>>) = MESSAGE_PING THEN cfg
  ELSE IF Coalesce(FindHeader(frame.headers, HEADER_TYPE), <<>>) # MESSAGE_PONG
          \/ frame.payload = None
    THEN cfg
  ELSE ApplyPong(cfg, JsonParse(decodeString(frame.payload[1])))

\* The mergeData parameters handleEventFrame takes from the headers.
EventParams(frame) ==
  [ messageId |-> Coalesce(MapGet(frame.headers, HEADER_MESSAGE_ID), <<>>),
    sum |-> NumberOf(Coalesce(MapGet(frame.headers, HEADER_SUM), <<49>>)),
    seq |-> NumberOf(Coalesce(MapGet(frame.headers, HEADER_SEQ), <<48>>)),
    traceId |-> Coalesce(MapGet(frame.headers, HEADER_TRACE_ID), <<>>),
    data |-> frame.payload[1] ]

\* What a turn of the message listener comes to: the session config and the
\* cache afterwards, the mergeData call made, whether the handler is invoked,
\* the frame, and whether the message ended in one of the listener's two
\* error branches (data that is no byte buffer, or the catch).
Turn(cfg, c, call, invoke, frame) ==
  [wsConfig |-> cfg, cache |-> c, merged |-> call, invoke |-> invoke, frame |-> frame,
   dropped |-> call # None /\ call[1].outcome.kind = "throw"]

\* The turn of a message that payloadToUint8 or decodeFrame rejects.
Rejected(cfg, c) ==
  [wsConfig |-> cfg, cache |-> c, merged |-> None, invoke |-> FALSE, frame |-> EmptyFrame,
   dropped |-> TRUE]

\* handleEventFrame after mergeData returned or threw: the handler is invoked
\* for a truthy result when one is registered.
AfterMerge(frame, cfg, params, r, handler) ==
  Turn(cfg, r.cache, Some([params |-> params, outcome |-> r.outcome]),
       r.outcome.kind = "value" /\ Truthy(r.outcome.value) /\ handler, frame)

\* handleEventFrame up to its await
handleEventFrame(frame, cfg, c, t, handler) ==
  IF Coalesce(MapGet(frame.headers, HEADER_TYPE), <<>>) # MESSAGE_EVENT \/ frame.payload = None
  THEN Turn(cfg, c, None, FALSE, frame)
  ELSE AfterMerge(frame, cfg, EventParams(frame), mergeData(c, EventParams(frame), t), handler)

\* The listener bindMessages installs, after decodeFrame: a decode error
\* and an error thrown by mergeData are caught.
Dispatch(decoded, cfg, c, t, handler) ==
  IF ~decoded.ok THEN Rejected(cfg, c)
  ELSE IF decoded.frame.method = FRAME_TYPE_CONTROL
    THEN Turn(handleControlFrame(decoded.frame, cfg), c, None, FALSE, decoded.frame)
  ELSE IF decoded.frame.method = FRAME_TYPE_DATA
    THEN handleEventFrame(decoded.frame, cfg, c, t, handler)
  ELSE Turn(cfg, c, None, FALSE, decoded.frame)

\* The listener bindMessages installs, for one "message" event: data that
\* payloadToUint8 cannot convert is dropped.
OnMessage(msg, cfg, c, t, handler) ==
  IF ~msg.binary THEN Rejected(cfg, c)
  ELSE Dispatch(Decoded[msg], cfg, c, t, handler)

\* the message id of a mergeData call, "" when none was made
CallId(call) == IF call = None THEN <<>> ELSE call[1].params.messageId

\* A faulty listener: a message that ends in an error branch closes the
\* socket.
SocketMessage_ClosesOnError(s) ==
  /\ sockets[s].state = "open" \/ (sockets[s].state = "closing" /\ ~sockets[s].awaited)
  /\ \E msg \in InboundMessages :
       \E r \in {OnMessage(msg, wsConfig, cache, now, eventHandler)} :
          /\ r.invoke => Len(pending) < MaxPending
          /\ wsConfig' = r.wsConfig
          /\ cache' = r.cache
          /\ merged' = r.merged
          /\ pending' = IF r.invoke
                        THEN Append(pending, [frame |-> r.frame, start |-> now, socket |-> s])
                        ELSE pending
          /\ handlerCalls' = IF r.invoke /\ handlerCalls[CallId(r.merged)] < 2
                             THEN [handlerCalls EXCEPT ![CallId(r.merged)] = @ + 1]
                             ELSE handlerCalls
          /\ step' = IF r.dropped THEN "messageDropped" ELSE "message"
          /\ sockets' = IF r.dropped THEN [sockets EXCEPT ![s].state = "closing"] ELSE sockets
  /\ sent' = <<>>
  /\ settled' = None
  /\ UNCHANGED <<autoReconnect, eventHandler, stopped, ws, reconnectCount,
                 negotiating, timers, now, nextSweep, io, tokenVars>>

\* A faulty listener: a completed message waits, unhandled, while an earlier
\* handler invocation is pending.
SocketMessage_OneAtATime(s) ==
  /\ sockets[s].state = "open" \/ (sockets[s].state = "closing" /\ ~sockets[s].awaited)
  /\ \E msg \in InboundMessages :
       \E r \in {OnMessage(msg, wsConfig, cache, now, eventHandler)} :
          /\ wsConfig' = r.wsConfig
          /\ cache' = r.cache
          /\ merged' = r.merged
          /\ pending' = IF r.invoke /\ pending = <<>>
                        THEN Append(pending, [frame |-> r.frame, start |-> now, socket |-> s])
                        ELSE pending
          /\ handlerCalls' = IF r.invoke /\ pending = <<>> /\ handlerCalls[CallId(r.merged)] < 2
                             THEN [handlerCalls EXCEPT ![CallId(r.merged)] = @ + 1]
                             ELSE handlerCalls
          /\ step' = IF r.dropped THEN "messageDropped" ELSE "message"
  /\ sent' = <<>>
  /\ settled' = None
  /\ UNCHANGED <<autoReconnect, eventHandler, stopped, ws, reconnectCount, sockets,
                 negotiating, timers, now, nextSweep, io, tokenVars>>

\* "message" event of socket s with the data msg
SocketDelivers(s, msg) ==
  /\ sockets[s].state = "open" \/ (sockets[s].state = "closing" /\ ~sockets[s].awaited)
  /\ \E r \in {OnMessage(msg, wsConfig, cache, now, eventHandler)} :
          /\ r.invoke => Len(pending) < MaxPending
          /\ wsConfig' = r.wsConfig
          /\ cache' = r.cache
          /\ merged' = r.merged
          /\ pending' = IF r.invoke
                        THEN Append(pending, [frame |-> r.frame, start |-> now, socket |-> s])
                        ELSE pending
          /\ handlerCalls' = IF r.invoke /\ handlerCalls[CallId(r.merged)] < 2
                             THEN [handlerCalls EXCEPT ![CallId(r.merged)] = @ + 1]
                             ELSE handlerCalls
          /\ step' = IF r.dropped THEN "messageDropped" ELSE "message"
  /\ sent' = <<>>
  /\ settled' = None
  /\ UNCHANGED <<autoReconnect, eventHandler, stopped, ws, reconnectCount, sockets,
                 negotiating, timers, now, nextSweep, io, tokenVars>>

\* "message" event of socket s
SocketMessage(s) == \E msg \in InboundMessages : SocketDelivers(s, msg)

CodeKey == <<99, 111, 100, 101>>   \* "code"
DataKey == <<100, 97, 116, 97>>    \* "data"

\* A faulty response: a handler failure is reported with status 500.
ResponseFrame_FailureStatus(frame, result, elapsedMs) ==
  LET withData == result.kind = "value" /\ Truthy(result.value)
      data == Base64(encodeString(JsonStringify(result.value)))
      code == IF result.kind = "throw" THEN 500 ELSE STATUS_OK
      respPayload ==
        JObject(<<[key |-> CodeKey, value |-> JNumber(code)]>>
                  \o (IF withData THEN <<[key |-> DataKey, value |-> JString(data)]>>
                      ELSE <<>>))
  IN [frame EXCEPT
        !.headers = Append(@, WsHeader(HEADER_BIZ_RT, Digits(elapsedMs))),
        !.payload = Some(encodeString(JsonStringify(respPayload)))]

\* A faulty response: the biz_rt header is put in front of the echoed headers.
ResponseFrame_BizRtFirst(frame, result, elapsedMs) ==
  LET withData == result.kind = "value" /\ Truthy(result.value)
      data == Base64(encodeString(JsonStringify(result.value)))
      respPayload ==
        JObject(<<[key |-> CodeKey, value |-> JNumber(STATUS_OK)]>>
                  \o (IF withData THEN <<[key |-> DataKey, value |-> JString(data)]>>
                      ELSE <<>>))
  IN [frame EXCEPT
        !.headers = <<WsHeader(HEADER_BIZ_RT, Digits(elapsedMs))>> \o @,
        !.payload = Some(encodeString(JsonStringify(respPayload)))]

\* The response frame handleEventFrame builds once the handler has settled:
\* result is Returns(value), ReturnsNull for a handler that returns nothing,
\* or Throws.
ResponseFrame(frame, result, elapsedMs) ==
  LET withData == result.kind = "value" /\ Truthy(result.value)
      data == Base64(encodeString(JsonStringify(result.value)))
      respPayload ==
        JObject(<<[key |-> CodeKey, value |-> JNumber(STATUS_OK)]>>
                  \o (IF withData THEN <<[key |-> DataKey, value |-> JString(data)]>>
                      ELSE <<>>))
  IN [frame EXCEPT
        !.headers = Append(@, WsHeader(HEADER_BIZ_RT, Digits(elapsedMs))),
        !.payload = Some(encodeString(JsonStringify(respPayload)))]

\* ticks of the clock, in milliseconds
Ms(ticks) == ticks * (ttlMs \div TicksPerTtl)

\* The handler's promise settles: handleEventFrame resumes and sends the
\* response.
HandlerSettles ==
  /\ \E i \in 1..Len(pending), result \in HandlerResults :
       /\ sent' = sendFrame(ws, sockets,
                    ResponseFrame(pending[i].frame, result, Ms(now - pending[i].start)))
       /\ pending' = SubSeq(pending, 1, i - 1) \o SubSeq(pending, i + 1, Len(pending))
       /\ settled' = Some([frame |-> pending[i].frame, socket |-> pending[i].socket,
                           result |-> result])
       /\ step' = IF result.kind = "throw" THEN "handlerRejects" ELSE "handlerResolves"
  /\ UNCHANGED <<connState, cacheVars, handlerCalls, io, tokenVars>>

ConnNext ==
  \/ Start
  \/ Stop
  \/ NegotiationOk
  \/ NegotiationFails
  \/ NegotiationThrows
  \/ \E s \in SocketIds : SocketOpen(s)
  \/ \E s \in SocketIds : SocketError(s)
  \/ \E s \in SocketIds : SocketClose(s)
  \/ PingTimerFires
  \/ ReconnectTimerFires

Next == ConnNext

\* The connection state machine: start, stop, negotiation, socket events
\* and timers.
Spec == Init /\ [][Next]_vars

\* --------------------------------------------------- the cache on its own
CacheIds == {<<97>>}
TraceIds == {<<116>>}
\* chunk bytes: "[", "]", "null"
Chunks == {<<91>>, <<93>>, <<110, 117, 108, 108>>}

MergeParams ==
  [messageId : CacheIds, sum : NotAnIndex..MaxSum, seq : NotAnIndex..MaxSum,
   traceId : TraceIds, data : Chunks]

\* a call of cache.mergeData
MergeData ==
  /\ \E params \in MergeParams :
       \E r \in {mergeData(cache, params, now)} :
          /\ cache' = r.cache
          /\ merged' = Some([params |-> params, outcome |-> r.outcome])
  /\ step' = "mergeData"
  /\ UNCHANGED <<now, nextSweep, connState, sent, settled, pending, handlerCalls, io, tokenVars>>

\* time passes; the sweep runs when it is due
Tick ==
  /\ now < MaxTime
  /\ now < nextSweep
  /\ now' = now + 1
  /\ step' = "tick"
  /\ merged' = None
  /\ UNCHANGED <<cache, nextSweep, connState, sent, settled, pending, handlerCalls, io, tokenVars>>

\* the interval timer of clearExpired fires
Sweep ==
  /\ now >= nextSweep
  /\ cache' = clearExpired(cache, now)
  /\ nextSweep' = nextSweep + TicksPerTtl
  /\ step' = "sweep"
  /\ merged' = None
  /\ UNCHANGED <<now, connState, sent, settled, pending, handlerCalls, io, tokenVars>>

CacheInit == Init /\ autoReconnect

CacheNext ==
  \/ MergeData
  \/ Tick
  \/ Sweep

\* A WsDataCache after construction, under mergeData calls and its sweep.
SpecCache == CacheInit /\ [][CacheNext]_vars

\* ------------------------------------- the inbound path of a connection
EventsInit == Init /\ autoReconnect

\* start() is called once, on the new client
FirstStart == ~eventHandler /\ Start

EventsNext ==
  \/ FirstStart
  \/ Stop
  \/ NegotiationOk
  \/ \E s \in SocketIds : SocketOpen(s)
  \/ \E s \in SocketIds : SocketClose(s)
  \/ PingTimerFires
  \/ \E s \in SocketIds : SocketMessage(s)
  \/ HandlerSettles

\* A client whose negotiations and connects succeed, receiving messages
\* within one TTL of the cache (no time passes).
SpecEvents == EventsInit /\ [][EventsNext]_vars

\* ================================================================ claims
\* connect() runs `new WebSocket(...)` in this turn.
SocketCreated ==
  \E s \in SocketIds : sockets[s].state = "free" /\ sockets'[s].state = "connecting"

\* the sockets that are connecting or open
LiveSockets == { s \in SocketIds : sockets[s].state \in {"connecting", "open"} }

\* the number of pending timers of a kind
PendingTimers(kind) ==
  BagCardinality([t \in { x \in BagToSet(timers) : x.kind = kind } |-> timers[t]])

\* C1: once stop() has returned, and until start() is called again, no turn
\* starts a negotiation request, creates a socket, sends a frame or runs a
\* timer callback -- also when a negotiation or a connect begun before the
\* stop() completes after it.
C1_NoActivityAfterStop ==
  [][(stopped /\ stopped') =>
       /\ negotiating' <= negotiating
       /\ ~SocketCreated
       /\ sent' = <<>>
       /\ settled' = None
       /\ step' \notin {"pingTimer", "reconnectTimer"}]_vars

\* C2: within one liveness window (no time passes), whatever chunks arrive
\* and arrive again, the handler is invoked at most once per message id.
C2_HandlerAtMostOncePerMessage == \A m \in EventIds : handlerCalls[m] <= 1

\* C3: the turn of a socket's "close" event starts no negotiation request:
\* the next request waits for the backoff.
C3_BackoffBeforeRenegotiation ==
  [][step' = "close" => negotiating' <= negotiating]_vars

\* C4: right after a "close" event that put the attempt counter past a
\* non-negative limit, the next turn, unless it is start(), starts no
\* negotiation request, creates no socket and is no reconnect timer firing.
C4_NoRetryPastLimit ==
  [][(step = "close" /\ ~stopped /\ LimitReached(wsConfig, reconnectCount)) =>
       \/ step' = "start"
       \/ /\ negotiating' <= negotiating
          /\ ~SocketCreated
          /\ step' # "reconnectTimer"]_vars

\* C5: in every reachable state at most one socket is connecting or open, at
\* most one ping timer is pending and at most one reconnect timer is pending.
C5_OneSocketOnePingOneRetry ==
  /\ Cardinality(LiveSockets) <= 1
  /\ PendingTimers("ping") <= 1
  /\ PendingTimers("reconnect") <= 1

\* The buffer a mergeData call writes into: the cached entry's, or `sum`
\* empty slots for an id without entry.
BufferBefore(c, p) ==
  IF p.messageId \in DOMAIN c THEN c[p.messageId].buffer ELSE Repeat(Undefined, p.sum)

\* The call delivers a chunk of a message of n chunks: its index is one of the
\* n slots, and no slot is a hole left by an index past the end.
ChunkOfMessage(c, p) ==
  /\ p.seq \in 0..(Len(BufferBefore(c, p)) - 1)
  /\ \A i \in 1..Len(BufferBefore(c, p)) : BufferBefore(c, p)[i].k # "hole"

\* The indices whose chunk has not arrived.
MissingSlots(buffer) == { i \in 0..(Len(buffer) - 1) : buffer[i + 1].k # "data" }

\* The chunks received for the message once the call's chunk is in place.
ChunksAfter(c, p) == [BufferBefore(c, p) EXCEPT ![p.seq + 1] = Chunk(p.data)]

\* The first n chunks joined in index order.
RECURSIVE InIndexOrder(_, _)
InIndexOrder(chunks, n) ==
  IF n = 0 THEN <<>> ELSE InIndexOrder(chunks, n - 1) \o chunks[n].d

\* The parse of the message's bytes once the call's chunk is in place.
AssembledValue(c, p) ==
  JsonParse(decodeString(InIndexOrder(ChunksAfter(c, p), Len(ChunksAfter(c, p)))))

OneOfTwo(entry) ==
  /\ Len(entry.buffer) = 2
  /\ Cardinality(MissingSlots(entry.buffer)) = 1
  /\ \A i \in 1..2 : entry.buffer[i].k # "hole"

\* C7: a mergeData call with a chunk for an id whose entry, holding 1 of 2
\* chunks, is older than the TTL returns what it returns on a cache without
\* that entry: the chunk starts a fresh assembly and does not complete the
\* stale one.
C7_StaleEntryIsNotCompleted ==
  [][(/\ step' = "mergeData"
      /\ merged'[1].params.messageId \in DOMAIN cache
      /\ OneOfTwo(cache[merged'[1].params.messageId])
      /\ merged'[1].params.sum = 2
      /\ merged'[1].params.seq \in 0..1
      /\ Expired(cache[merged'[1].params.messageId], now)) =>
       merged'[1].outcome = mergeData(MapDelete(cache, merged'[1].params.messageId),
                                      merged'[1].params, now).outcome]_vars

\* C8: whenever a mergeData call with a chunk of an n-chunk message returns a
\* value, the value is the parse of the chunks joined in index order, in
\* whatever order they arrived.
C8_ValueOfIndexOrder ==
  [][(/\ step' = "mergeData"
      /\ ChunkOfMessage(cache, merged'[1].params)
      /\ merged'[1].outcome.kind = "value") =>
       /\ AssembledValue(cache, merged'[1].params).ok
       /\ merged'[1].outcome.value = AssembledValue(cache, merged'[1].params).value]_vars

\* C8 witness: the chunk of index 0, "[", arrives after the chunk of index 1
\* and completes the message to [].
C8_Witness ==
  /\ step = "mergeData"
  /\ merged # None
  /\ merged[1].params.seq = 0
  /\ merged[1].params.data = <<91>>
  /\ merged[1].outcome = Returns(JArray(<<>>))

\* the bytes of {"code":200}
CodeOnlyPayload == <<123, 34, 99, 111, 100, 101, 34, 58, 50, 48, 48, 125>>

\* C9: the turn in which the handler's promise rejects leaves the sockets and
\* the rest of the connection state as they are, and, the client's socket
\* being open, sends on it one frame whose payload is {"code":200}, without
\* a data member.
C9_HandlerFailureIsAcknowledged ==
  [][step' = "handlerRejects" =>
       /\ connState' = connState
       /\ (ws # 0 /\ ReadyState(sockets[ws]) = 1) =>
            /\ Len(sent') = 1
            /\ sent'[1].socket = ws
            /\ decodeFrame(sent'[1].data).ok
            /\ decodeFrame(sent'[1].data).frame.payload = Some(CodeOnlyPayload)]_vars

\* C9 witness: the handler has rejected and a response went out on the open
\* socket.
C9_Witness ==
  /\ step = "handlerRejects"
  /\ Len(sent) = 1
  /\ ws # 0
  /\ sockets[ws].state = "open"

\* C10: a message that ends in one of the listener's error branches changes
\* neither the sockets nor the rest of the connection state, sends nothing
\* and invokes no handler; and a negotiation request is started only by
\* start() and by a socket's "close" event.
C10_MalformedMessageIsDropped ==
  [][/\ step' = "messageDropped" =>
          /\ connState' = connState
          /\ sent' = <<>>
          /\ settled' = None
          /\ pending' = pending
     /\ negotiating' > negotiating => step' \in {"start", "close"}]_vars

\* C10 witness: a message that does not decode has been dropped and the
\* socket it came on is still the client's open socket.
C10_Witness ==
  /\ step = "messageDropped"
  /\ merged = None
  /\ ws # 0
  /\ sockets[ws].state = "open"

\* the bounds of getReconnectDelay under a session config
ReconnectInterval(cfg) == IF cfg = None THEN DefaultReconnectMs ELSE cfg[1].reconnectInterval
ReconnectJitter(cfg) == IF cfg = None THEN DefaultNonceMs ELSE cfg[1].reconnectNonce

\* C11: the turn in which a negotiation fails creates no socket and starts no
\* negotiation; with auto-reconnect it arms one reconnect timer, held by
\* this.reconnectTimer, with a delay between reconnectInterval and
\* reconnectInterval + reconnectJitter; without auto-reconnect it arms no
\* timer at all.
C11_FailedNegotiationRetriesIfEnabled ==
  [][step' = "negotiationFails" =>
       /\ negotiating' = negotiating - 1
       /\ sockets' = sockets
       /\ ws' = ws
       /\ IF autoReconnect
          THEN /\ PendingTimers("reconnect")' = PendingTimers("reconnect") + 1
               /\ PendingTimers("ping")' = PendingTimers("ping")
               /\ Cardinality(reconnectTimer') = 1
               /\ \A t \in reconnectTimer' :
                    /\ t.delay >= ReconnectInterval(wsConfig)
                    /\ t.delay <= ReconnectInterval(wsConfig) + ReconnectJitter(wsConfig)
          ELSE timers' = timers]_vars

\* C11 witness: a negotiation has failed with auto-reconnect on, and the
\* retry timer is pending.
C11_Witness ==
  /\ step = "negotiationFails"
  /\ autoReconnect
  /\ reconnectTimer # {}
  /\ negotiating = 0

\* C12: every stop(), before start() or after an earlier stop() included,
\* leaves the client stopped with a null socket handle, and a stop() that
\* directly follows a stop() changes nothing.
C12_StopIsIdempotent ==
  [][step' = "stop" =>
       /\ stopped'
       /\ ws' = 0
       /\ HeldTimers(timers', "ping") = {}
       /\ HeldTimers(timers', "reconnect") = {}
       /\ step = "stop" => (connState' = connState /\ sent' = sent)]_vars

\* C12 witness: stop() was called on a client that was never started.
C12_Witness ==
  /\ step = "stop"
  /\ ~eventHandler
  /\ stopped
  /\ ws = 0

\* ------------------------------------------------- the frame codec alone
\* values of an optional string field: absent, "", "g", "é", "中", a string
\* that starts with U+FEFF, and a lone surrogate
OptionalStrings ==
  { None, Some(<<>>), Some(<<103>>), Some(<<233>>), Some(<<20013>>),
    Some(<<ByteOrderMark, 97>>), Some(<<55296>>) }

HeaderLists ==
  { <<>>,
    <<WsHeader(HEADER_TYPE, MESSAGE_EVENT)>>,
    <<WsHeader(HEADER_TYPE, MESSAGE_EVENT), WsHeader(HEADER_SEQ, <<48>>)>>,
    <<WsHeader(HEADER_SEQ, <<48>>), WsHeader(HEADER_TYPE, MESSAGE_EVENT)>>,
    <<WsHeader(HEADER_SEQ, <<>>), WsHeader(HEADER_SEQ, <<49>>)>> }

\* frames handed to encodeFrame
CodecFrames ==
  [ SeqID : {0, 300}, LogID : {0, 127}, service : {0, 128}, method : {0, 1},
    headers : HeaderLists, payloadEncoding : OptionalStrings,
    payloadType : {None, Some(<<116>>)},
    payload : {None, Some(<<>>), Some(<<0, 255>>)},
    LogIDNew : {None, Some(<<108>>)} ]

CodecInit ==
  /\ Constructed
  /\ autoReconnect
  /\ io \in { [frame |-> f, bytes |-> None, decoded |-> None] : f \in CodecFrames }

\* encodeFrame(frame)
Encode ==
  /\ io.bytes = None
  /\ io' = [io EXCEPT !.bytes = Some(encodeFrame(io.frame))]
  /\ step' = "encode"
  /\ UNCHANGED <<connState, cacheVars, sent, settled, pending, handlerCalls, tokenVars>>

\* decodeFrame(bytes)
Decode ==
  /\ io.bytes # None
  /\ io.decoded = None
  /\ io' = [io EXCEPT !.decoded = Some(decodeFrame(io.bytes[1]))]
  /\ step' = "decode"
  /\ UNCHANGED <<connState, cacheVars, sent, settled, pending, handlerCalls, tokenVars>>

CodecNext ==
  \/ Encode
  \/ Decode

\* encodeFrame and decodeFrame applied to a frame.
SpecCodec == CodecInit /\ [][CodecNext]_vars

\* A string TextEncoder and TextDecoder carry unchanged: no lone surrogate,
\* no byte order mark in front.
PlainString(str) ==
  /\ \A i \in 1..Len(str) : ~IsSurrogate(str[i])
  /\ str = <<>> \/ str[1] # ByteOrderMark

PlainOptional(field) == field = None \/ PlainString(field[1])

\* the frame's strings are plain and its numbers are not negative
PlainFrame(f) ==
  /\ f.SeqID >= 0 /\ f.LogID >= 0 /\ f.service >= 0 /\ f.method >= 0
  /\ \A i \in 1..Len(f.headers) : PlainString(f.headers[i].key) /\ PlainString(f.headers[i].value)
  /\ PlainOptional(f.payloadEncoding)
  /\ PlainOptional(f.payloadType)
  /\ PlainOptional(f.LogIDNew)

\* an optional string as the wire carries it: the empty string is absent
OnWire(field) == IF field = Some(<<>>) THEN None ELSE field

\* C13, as the code has it: for a frame with non-negative numbers and plain
\* strings, decodeFrame(encodeFrame(f)) succeeds and gives back the ids, the
\* service, the method, the headers in their order and the payload (an empty
\* payload included); an optional string comes back when it is not empty,
\* and an absent or empty one comes back absent.
C13_RoundTrip ==
  (io # None /\ io.decoded # None /\ PlainFrame(io.frame)) =>
    /\ io.decoded[1].ok
    /\ io.decoded[1].frame =
         [io.frame EXCEPT !.payloadEncoding = OnWire(@), !.payloadType = OnWire(@),
                          !.LogIDNew = OnWire(@)]

\* C13 witness: a frame with two headers, a payload and optional strings
\* has gone through encodeFrame and decodeFrame.
C13_Witness ==
  /\ step = "decode"
  /\ io.decoded # None
  /\ Len(io.frame.headers) = 2
  /\ io.frame.payload = Some(<<0, 255>>)
  /\ io.frame.payloadEncoding = Some(<<20013>>)
  /\ io.frame.SeqID = 300
  /\ io.decoded[1].frame = io.frame

\* C13, as stated: decodeFrame(encodeFrame(f)) gives back every field set on
\* a frame with non-negative numbers and plain strings.
C13_EveryFieldReproduced ==
  (io # None /\ io.decoded # None /\ PlainFrame(io.frame)) =>
    /\ io.decoded[1].ok
    /\ io.decoded[1].frame = io.frame

\* the ping interval of a session config, in milliseconds
PingIntervalOf(cfg) == IF cfg = None THEN DefaultPingMs ELSE cfg[1].pingInterval

\* this.ws is an open socket
Connected == ws # 0 /\ sockets[ws].state = "open"

\* the frames sent in the turn are one ping control frame, on socket w
PingSentOn(frames, w) ==
  /\ Len(frames) = 1
  /\ frames[1].socket = w
  /\ decodeFrame(frames[1].data).ok
  /\ decodeFrame(frames[1].data).frame.method = FRAME_TYPE_CONTROL
  /\ FindHeader(decodeFrame(frames[1].data).frame.headers, HEADER_TYPE) = Some(MESSAGE_PING)

\* C14: the turn in which the client's socket opens sends a ping on it and
\* arms the ping timer with the ping interval; every firing of a ping timer
\* while that socket is open sends a ping and arms the timer again; and
\* whenever the client's socket is open a ping timer is pending.
C14_PingOnOpenAndEveryInterval ==
  [][/\ (step' \in {"open", "pingTimer"} /\ Connected') =>
          /\ PingSentOn(sent', ws')
          /\ \A t \in pingTimer' : t.delay = PingIntervalOf(wsConfig')
     /\ Connected' => pingTimer' # {}]_vars

\* C14 witness: the socket opened under a negotiated PingInterval of 1 s, the
\* ping went out in the same turn and the next is due in 1000 ms.
C14_Witness ==
  /\ step = "open"
  /\ Connected
  /\ Len(sent) = 1
  /\ \E t \in pingTimer : t.delay = 1000

\* C15: a received message, a pong that changes the ping interval included,
\* leaves the pending timers as they are; a ping timer that fires arms the
\* next one with the ping interval of the session config at that moment.
C15_IntervalOfTheFiring ==
  [][/\ step' \in {"message", "messageDropped"} => timers' = timers
     /\ step' = "pingTimer" =>
          /\ pingTimer' # {}
          /\ \A t \in pingTimer' : t.delay = PingIntervalOf(wsConfig)]_vars

\* C15 witness: a pong has set the ping interval to 2 s while the pending
\* ping timer still runs on the interval it was armed with.
C15_Witness ==
  /\ step = "message"
  /\ wsConfig # None
  /\ wsConfig[1].pingInterval = 2000
  /\ \E t \in pingTimer : t.delay # 2000

\* ------------------------------------------------------- callback verifier
\* String.prototype.trim: white space stripped from both ends
RECURSIVE Trim(_)
Trim(str) ==
  IF str = <<>> THEN str
  ELSE IF Head(str) \in {9, 10, 11, 12, 13, 32} THEN Trim(Tail(str))
  ELSE IF str[Len(str)] \in {9, 10, 11, 12, 13, 32}
       THEN Trim(SubSeq(str, 1, Len(str) - 1))
       ELSE str

\* option?.trim() of an optional string; the empty string stands for
\* undefined as well: every use tests the result for truthiness or replaces
\* undefined by ""
TrimOptional(option) == IF option = None THEN <<>> ELSE Trim(option[1])

\* value?.trim().toLowerCase() ?? "" of a string
normalizeType(value) ==
  LET trimmed == Trim(value)
  IN [i \in 1..Len(trimmed) |->
        IF trimmed[i] >= 65 /\ trimmed[i] <= 90 THEN trimmed[i] + 32 ELSE trimmed[i]]

\* The hex digest of SHA-256, taken as free of collisions: the digest of a
\* text is the text behind a mark that no other string carries.
sha256Hex(value) == <<0 - 256>> \o value

\* The base64 text of IV and AES-256-CBC ciphertext of a plaintext under a
\* key, taken as an ideal cipher: the digest of the key and the plaintext,
\* each code point moved out of the range of the texts.
AesEncrypt(key, plaintext) ==
  LET digest == sha256Hex(key)
  IN [i \in 1..Len(digest) |-> digest[i] + 2000]
       \o [i \in 1..Len(plaintext) |-> plaintext[i] + 1000]

\* new AESCipher(key).decrypt(encrypt): the plaintext, when the text was
\* encrypted under this key; decipher.final throws on any other text
\* ([ok |-> FALSE])
AESCipherDecrypt(key, encrypt) ==
  LET prefix == [i \in 1..Len(sha256Hex(key)) |-> sha256Hex(key)[i] + 2000]
      n == Len(prefix)
  IN IF /\ Len(encrypt) >= n
        /\ SubSeq(encrypt, 1, n) = prefix
        /\ \A i \in (n + 1)..Len(encrypt) :
             encrypt[i] >= 1000 /\ encrypt[i] < 2000
     THEN [ok |-> TRUE,
           text |-> [i \in 1..(Len(encrypt) - n) |-> encrypt[n + i] - 1000]]
     ELSE [ok |-> FALSE, text |-> <<>>]

\* the member names of FeishuCallbackEnvelope that the verifier reads
EnvelopeKeys ==
  [encrypt |-> <<101, 110, 99, 114, 121, 112, 116>>,
   type |-> <<116, 121, 112, 101>>,
   challenge |-> <<99, 104, 97, 108, 108, 101, 110, 103, 101>>,
   token |-> <<116, 111, 107, 101, 110>>,
   header |-> <<104, 101, 97, 100, 101, 114>>]

\* value[key] of a parsed value that is not null: None for undefined (a later
\* member of the same key wins in JSON.parse)
RECURSIVE LastMember(_, _)
LastMember(members, key) ==
  IF members = <<>> THEN None
  ELSE IF members[Len(members)].key = key THEN Some(members[Len(members)].value)
  ELSE LastMember(SubSeq(members, 1, Len(members) - 1), key)

Property(value, key) ==
  IF value.type = "object" THEN LastMember(value.members, key) ELSE None

\* payload.header?.token ?? payload.token
extractToken(payload) ==
  LET header == Property(payload, EnvelopeKeys.header)
      nested == IF header = None \/ header[1].type = "null"
                THEN None
                ELSE Property(header[1], EnvelopeKeys.token)
  IN IF nested = None \/ nested[1].type = "null"
     THEN Property(payload, EnvelopeKeys.token)
     ELSE nested

\* the outcomes of parseFeishuCallback: a thrown error, or a result
CallbackFails(error) ==
  [kind |-> "error", error |-> error, challenge |-> <<>>, event |-> JNull]
CallbackChallenge_Empty(challenge) ==
  [kind |-> "challenge", error |-> "", challenge |-> <<>>, event |-> JNull]
CallbackChallenge(challenge) ==
  [kind |-> "challenge", error |-> "", challenge |-> challenge, event |-> JNull]
CallbackEvent(payload) ==
  [kind |-> "event", error |-> "", challenge |-> <<>>, event |-> payload]

\* lines 117 to 126 on a payload that passed the checks
Classify(payload) ==
  LET type == Property(payload, EnvelopeKeys.type)
      challenge == Property(payload, EnvelopeKeys.challenge)
      \* String(payload.challenge ?? ""), of a string, a number or a boolean
      text == IF challenge = None \/ challenge[1].type = "null" THEN <<>>
              ELSE IF challenge[1].type = "string" THEN challenge[1].s
              ELSE JsonStringify(challenge[1])
  IN IF type # None /\ type[1].type \notin {"null", "string"}
     THEN CallbackFails("TypeError")
     ELSE IF /\ type # None
             /\ type[1].type = "string"
             /\ normalizeType(type[1].s) \in
                  {EnvelopeKeys.challenge,
                   <<117, 114, 108, 95, 118, 101, 114, 105, 102, 105, 99, 97, 116, 105, 111, 110>>}
          THEN (IF text = <<>>
                THEN CallbackFails("challenge missing")
                ELSE CallbackChallenge(text))
          ELSE CallbackEvent(payload)

\* lines 109 to 126 on the payload, decrypted when it was encrypted
CheckToken(payload, verification) ==
  LET verificationToken == TrimOptional(verification.verificationToken)
  IN IF payload.type = "null" THEN CallbackFails("TypeError")
     ELSE IF /\ verificationToken # <<>>
             /\ extractToken(payload) # Some(JString(verificationToken))
          THEN CallbackFails("verification token mismatch")
          ELSE Classify(payload)

\* Decrypted with the token checked on the outer envelope
Decrypted_OuterToken(parsed, verification) ==
  LET encrypt == IF parsed.ok /\ parsed.value.type # "null"
                 THEN Property(parsed.value, EnvelopeKeys.encrypt)
                 ELSE None
      encryptKey == TrimOptional(verification.encryptKey)
      verificationToken == TrimOptional(verification.verificationToken)
  IN IF ~parsed.ok THEN CallbackFails("SyntaxError")
     ELSE IF parsed.value.type = "null" THEN CallbackFails("TypeError")
     ELSE IF encrypt = None \/ ~Truthy(encrypt[1])
          THEN CheckToken(parsed.value, verification)
     ELSE IF encryptKey = <<>> THEN CallbackFails("encryptKey missing")
     ELSE IF encrypt[1].type # "string" THEN CallbackFails("TypeError")
     ELSE LET decrypted == AESCipherDecrypt(encryptKey, encrypt[1].s)
          IN IF ~decrypted.ok THEN CallbackFails("bad decrypt")
             ELSE IF ~JsonParse(decrypted.text).ok THEN CallbackFails("SyntaxError")
             ELSE IF /\ verificationToken # <<>>
                     /\ extractToken(parsed.value) # Some(JString(verificationToken))
                  THEN CallbackFails("verification token mismatch")
                  ELSE Classify(JsonParse(decrypted.text).value)

\* lines 97 to 126 on a body that passed the signature check
Decrypted(parsed, verification) ==
  LET encrypt == IF parsed.ok /\ parsed.value.type # "null"
                 THEN Property(parsed.value, EnvelopeKeys.encrypt)
                 ELSE None
      encryptKey == TrimOptional(verification.encryptKey)
  IN IF ~parsed.ok THEN CallbackFails("SyntaxError")
     ELSE IF parsed.value.type = "null" THEN CallbackFails("TypeError")
     ELSE IF encrypt = None \/ ~Truthy(encrypt[1])
          THEN CheckToken(parsed.value, verification)
     ELSE IF encryptKey = <<>> THEN CallbackFails("encryptKey missing")
     ELSE IF encrypt[1].type # "string" THEN CallbackFails("TypeError")
     ELSE LET decrypted == AESCipherDecrypt(encryptKey, encrypt[1].s)
          IN IF ~decrypted.ok THEN CallbackFails("bad decrypt")
             ELSE IF ~JsonParse(decrypted.text).ok THEN CallbackFails("SyntaxError")
             ELSE CheckToken(JsonParse(decrypted.text).value, verification)

\* parseFeishuCallback without the signature check
parseFeishuCallback_Unsigned(params) ==
  IF params.rawBody = <<>> THEN CallbackFails("body is empty")
  ELSE Decrypted(JsonParse(params.rawBody), params.verification)

\* A faulty parseFeishuCallback: the secret is demanded before the signature
\* header is looked at.
parseFeishuCallback_SecretRequired(params) ==
  IF params.rawBody = <<>> THEN CallbackFails("body is empty")
  ELSE IF TrimOptional(params.verification.appSecret) = <<>>
    THEN CallbackFails("signature provided but appSecret missing")
  ELSE IF /\ params.headers.signature # None
          /\ params.headers.signature[1] # <<>>
          /\ params.headers.signature[1] #
               sha256Hex(TrimOptional(params.headers.timestamp)
                           \o TrimOptional(params.headers.nonce)
                           \o params.rawBody \o TrimOptional(params.verification.appSecret))
    THEN CallbackFails("signature mismatch")
  ELSE Decrypted(JsonParse(params.rawBody), params.verification)

parseFeishuCallback(params) ==
  LET rawBody == params.rawBody
      headers == params.headers
      verification == params.verification
      appSecret == TrimOptional(verification.appSecret)
      timestamp == TrimOptional(headers.timestamp)
      nonce == TrimOptional(headers.nonce)
      expected == sha256Hex(timestamp \o nonce \o rawBody \o appSecret)
  IN IF rawBody = <<>> THEN CallbackFails("body is empty")
     ELSE IF headers.signature # None /\ headers.signature[1] # <<>>
          THEN (IF appSecret = <<>>
                THEN CallbackFails("signature provided but appSecret missing")
                ELSE IF expected # headers.signature[1]
                     THEN CallbackFails("signature mismatch")
                     ELSE Decrypted(JsonParse(rawBody), verification))
          ELSE Decrypted(JsonParse(rawBody), verification)

\* The deliveries of the callback specification: plain and encrypted
\* envelopes, with and without tokens, and bodies that are no envelope.
CallbackPayloads ==
  LET Str(text) == JString(text)
      M(key, value) == [key |-> key, value |-> value]
      K == EnvelopeKeys
      UrlVerification ==
        <<117, 114, 108, 95, 118, 101, 114, 105, 102, 105, 99, 97, 116, 105, 111, 110>>
  IN { JObject(<<M(K.type, Str(UrlVerification)), M(K.challenge, Str(<<99, 49>>)),
                 M(K.token, Str(<<118>>))>>),
       JObject(<<M(K.type, Str(UrlVerification)), M(K.token, Str(<<118>>))>>),
       JObject(<<M(K.type, Str(<<32, 67>> \o Tail(K.challenge))),
                 M(K.challenge, JNumber(7)),
                 M(K.header, JObject(<<M(K.token, Str(<<118>>))>>))>>),
       JObject(<<M(K.header, JObject(<<M(K.token, Str(<<118>>))>>)),
                 M(K.token, Str(<<119>>)),
                 M(<<101, 118, 101, 110, 116>>, JObject(<<>>))>>),
       JObject(<<M(K.type, Str(<<109>>)), M(K.token, Str(<<119>>))>>) }

CallbackBodies ==
  LET M(key, value) == [key |-> key, value |-> value]
      K == EnvelopeKeys
      Sealed(key, payload) == M(K.encrypt, JString(AesEncrypt(key, JsonStringify(payload))))
  IN { JsonStringify(p) : p \in CallbackPayloads }
       \cup { JsonStringify(JObject(<<Sealed(<<107>>, p)>>)) : p \in CallbackPayloads }
       \cup { JsonStringify(JObject(<<Sealed(<<107>>, p), M(K.token, JString(<<118>>))>>)) :
                p \in CallbackPayloads }
       \cup { JsonStringify(JObject(<<M(K.encrypt, JString(<<>>))>>)),
              <<110, 117, 108, 108>>, <<120>>, <<>> }

\* the requests: a body, the three headers and the verification settings;
\* the signatures are the one of timestamp "1", nonce "2" and secret "s", a
\* wrong one and an empty one
CallbackParams ==
  UNION {
    { [rawBody |-> body,
       headers |-> [signature |-> signature, timestamp |-> timestamp, nonce |-> nonce],
       verification |->
         [verificationToken |-> token, encryptKey |-> key, appSecret |-> secret]] :
        signature \in {None, Some(<<>>), Some(<<98, 97, 100>>),
                       Some(sha256Hex(<<49, 50>> \o body \o <<115>>))},
        timestamp \in {None, Some(<<32, 49>>)},
        nonce \in {None, Some(<<50>>)},
        token \in {None, Some(<<118>>), Some(<<32>>)},
        key \in {None, Some(<<107, 32>>), Some(<<106>>)},
        secret \in {None, Some(<<115>>), Some(<<32, 115, 32>>), Some(<<116>>)} } :
      body \in CallbackBodies }

CallbackInit ==
  /\ Constructed
  /\ autoReconnect
  /\ io \in { [params |-> p, result |-> None] : p \in CallbackParams }

\* parseFeishuCallback(params)
ParseCallback ==
  /\ io.result = None
  /\ io' = [io EXCEPT !.result = Some(parseFeishuCallback(io.params))]
  /\ step' = "parseCallback"
  /\ UNCHANGED <<connState, cacheVars, sent, settled, pending, handlerCalls, tokenVars>>

CallbackNext == ParseCallback

\* parseFeishuCallback applied to a request.
SpecCallback == CallbackInit /\ [][CallbackNext]_vars

\* a signature header with a value
SignaturePresent(params) ==
  params.headers.signature # None /\ params.headers.signature[1] # <<>>

\* the header equals hex(SHA-256(timestamp + nonce + rawBody + secret)), on
\* the header values and the secret without surrounding white space
SignatureMatches(params) ==
  params.headers.signature[1] =
    sha256Hex(TrimOptional(params.headers.timestamp) \o TrimOptional(params.headers.nonce)
                \o params.rawBody \o TrimOptional(params.verification.appSecret))

UrlVerificationBody ==
  <<123, 34, 116, 121, 112, 101, 34, 58, 34, 117, 114, 108, 95, 118, 101, 114, 105, 102,
    105, 99, 97, 116, 105, 111, 110, 34, 44, 34, 99, 104, 97, 108, 108, 101, 110, 103,
    101, 34, 58, 34, 99, 49, 34, 44, 34, 116, 111, 107, 101, 110, 34, 58, 34, 118, 34, 125>>

SignatureAccepted(params) ==
  SignaturePresent(params) =>
    (TrimOptional(params.verification.appSecret) # <<>> /\ SignatureMatches(params))

\* the envelope of the body, when the body is the text of an object
Envelope(params) ==
  IF /\ params.rawBody # <<>>
     /\ JsonParse(params.rawBody).ok
     /\ JsonParse(params.rawBody).value.type = "object"
  THEN Some(JsonParse(params.rawBody).value)
  ELSE None

\* the envelope carries an encrypt field with a text in it
Encrypted(envelope) ==
  /\ Property(envelope, EnvelopeKeys.encrypt) # None
  /\ Property(envelope, EnvelopeKeys.encrypt)[1].type = "string"
  /\ Property(envelope, EnvelopeKeys.encrypt)[1].s # <<>>

\* the payload inside an encrypted envelope, when the configured key opens it
\* and the plaintext is the text of an object
Inner(envelope, key) ==
  LET opened == AESCipherDecrypt(key, Property(envelope, EnvelopeKeys.encrypt)[1].s)
  IN IF opened.ok /\ JsonParse(opened.text).ok /\ JsonParse(opened.text).value.type = "object"
     THEN Some(JsonParse(opened.text).value)
     ELSE None

\* the payload that the checks after the signature are about: the decrypted
\* one of an encrypted envelope, the envelope itself otherwise
Payload(params) ==
  IF Envelope(params) = None THEN None
  ELSE IF ~Encrypted(Envelope(params)[1]) THEN Envelope(params)
  ELSE IF TrimOptional(params.verification.encryptKey) = <<>> THEN None
  ELSE Inner(Envelope(params)[1], TrimOptional(params.verification.encryptKey))

\* the payload's header.token, else its token
TokenOf(payload) ==
  LET header == Property(payload, EnvelopeKeys.header)
  IN IF /\ header # None
        /\ header[1].type = "object"
        /\ Property(header[1], EnvelopeKeys.token) # None
     THEN Property(header[1], EnvelopeKeys.token)
     ELSE Property(payload, EnvelopeKeys.token)

\* a verification token is configured and the payload's token is another
TokenDiffers(params, payload) ==
  /\ TrimOptional(params.verification.verificationToken) # <<>>
  /\ TokenOf(payload) # Some(JString(TrimOptional(params.verification.verificationToken)))

Verified(params) ==
  /\ SignatureAccepted(params)
  /\ Payload(params) # None
  /\ ~TokenDiffers(params, Payload(params)[1])

ChallengeTypes ==
  {<<99, 104, 97, 108, 108, 101, 110, 103, 101>>,
   <<117, 114, 108, 95, 118, 101, 114, 105, 102, 105, 99, 97, 116, 105, 111, 110>>}

\* the upper-case letters of a text replaced by the lower-case ones
LowerCase(text) ==
  [i \in 1..Len(text) |-> IF text[i] \in 65..90 THEN text[i] + 32 ELSE text[i]]

\* the payload's challenge as a string: "" when it is missing
ChallengeOf(payload) ==
  LET challenge == Property(payload, EnvelopeKeys.challenge)
  IN IF challenge = None \/ challenge[1].type = "null" THEN <<>>
     ELSE IF challenge[1].type = "string" THEN challenge[1].s
     ELSE JsonStringify(challenge[1])

\* the result of a verified request whose payload is, or is not, of a
\* challenge type
Classified(result, payload, isChallenge) ==
  IF isChallenge
  THEN IF ChallengeOf(payload) = <<>>
       THEN result.kind = "error"
       ELSE result.kind = "challenge" /\ result.challenge = ChallengeOf(payload)
  ELSE result.kind = "event" /\ result.event = payload

DataSent(frames) ==
  LET payload == decodeFrame(frames[1].data).frame.payload
  IN Property(JsonParse(decodeString(payload[1])).value, DataKey)

\* C19: when the handler returns a value for a completed event and the
\* client's socket is open, the response payload carries a data member equal
\* to the base64 text of the serialized value; the member is absent only
\* when the handler returns nothing or fails.
C19_ReturnedValueIsRelayed ==
  [][(step' \in {"handlerResolves", "handlerRejects"} /\ ws # 0 /\ ReadyState(sockets[ws]) = 1) =>
       /\ Len(sent') = 1
       /\ IF settled'[1].result.kind = "value"
          THEN DataSent(sent') =
                 Some(JString(Base64(encodeString(JsonStringify(settled'[1].result.value)))))
          ELSE DataSent(sent') = None]_vars

\* C20: the attempt counter goes back to zero in a turn of start() only.
C20_OnlyStartResetsCounter ==
  [][(reconnectCount # 0 /\ reconnectCount' = 0) => step' = "start"]_vars

\* the message ids of the pending handler invocations, oldest first
PendingIds(calls) ==
  [i \in 1..Len(calls) |-> Coalesce(MapGet(calls[i].frame.headers, HEADER_MESSAGE_ID), <<>>)]

\* C21: the turn of a "message" event makes the mergeData call of its frame
\* and, when that call completes a message and a handler is registered,
\* invokes the handler in the same turn, behind the invocations that are
\* still pending and whether or not there are any; no other turn invokes the
\* handler or reorders the pending invocations.
C21_HandledInDeliveryOrder ==
  [][/\ step' \in {"message", "messageDropped"} =>
          IF /\ merged' # None
             /\ merged'[1].outcome.kind = "value"
             /\ Truthy(merged'[1].outcome.value)
             /\ eventHandler
          THEN /\ Len(pending') = Len(pending) + 1
               /\ SubSeq(pending', 1, Len(pending)) = pending
               /\ PendingIds(pending')[Len(pending')] = merged'[1].params.messageId
          ELSE pending' = pending
     /\ step' \notin {"message", "messageDropped"} =>
          \E i \in 1..(Len(pending) + 1) :
             pending' = SubSeq(pending, 1, i - 1) \o SubSeq(pending, i + 1, Len(pending))]_vars

\* C21 witness: the second chunk of "m2" completed it and the handler was
\* invoked for it while the invocation for "m1" was still pending.
C21_Witness ==
  /\ step = "message"
  /\ merged # None
  /\ merged[1].params.messageId = <<109, 50>>
  /\ PendingIds(pending) = <<<<109, 49>>, <<109, 50>>>>

\* ------------------------------------------------ FeishuClient's token cache
RefreshMarginMs == 60000

\* A faulty test: the cached token is used until it expires.
Fresh_UntilExpiry(cached, t) ==
  cached # None /\ cached[1].expiresAt > Ms(t)

\* getTenantAccessToken's test of the cache at the time t (in ticks)
Fresh(cached, t) ==
  cached # None /\ cached[1].expiresAt > Ms(t) + RefreshMarginMs

\* what the auth endpoint may answer: the HTTP status is ok or not, with a
\* code, a tenant_access_token ("a", "b", "" or none) and an expire in
\* seconds (or none)
AuthResponses ==
  [ok : BOOLEAN, code : {0, 1},
   token : {None, Some(<<>>), Some(<<97>>), Some(<<98>>)},
   expire : {None, Some(65), Some(70)}]

FetchCall(r, kind, token) == [request |-> r, kind |-> kind, token |-> token]

\* request(params) up to its first fetch: getTenantAccessToken returns the
\* cached token, and the API is called with it, or calls the auth endpoint
Request(r) ==
  /\ requests[r].stage = "idle"
  /\ IF Fresh(tokenCache, now)
     THEN /\ requests' = [requests EXCEPT ![r] = [stage |-> "api", token |-> tokenCache[1].value]]
          /\ fetches' = Append(fetches, FetchCall(r, "api", tokenCache[1].value))
     ELSE /\ requests' = [requests EXCEPT ![r] = [stage |-> "auth", token |-> <<>>]]
          /\ fetches' = Append(fetches, FetchCall(r, "auth", <<>>))
  /\ step' = "request"
  /\ UNCHANGED <<tokenCache, connState, cacheVars, sent, settled, pending, handlerCalls, io>>

\* the auth endpoint's response arrives: getTenantAccessToken throws, or
\* stores the token and returns it, and request() calls the API with it (a
\* fetch that rejects and a body that is no JSON throw like a response that
\* is not ok)
AuthResponds(r) ==
  /\ requests[r].stage = "auth"
  /\ \E response \in AuthResponses :
          IF ~response.ok \/ response.code # 0 \/ Coalesce(response.token, <<>>) = <<>>
          THEN /\ requests' = [requests EXCEPT ![r] = [stage |-> "failed", token |-> <<>>]]
               /\ step' = "authFails"
               /\ UNCHANGED <<tokenCache, fetches>>
          ELSE /\ tokenCache' =
                    Some([value |-> response.token[1],
                          expiresAt |-> Ms(now) + (Coalesce(response.expire, 0) * MsPerSecond)])
               /\ requests' = [requests EXCEPT ![r] = [stage |-> "api", token |-> response.token[1]]]
               /\ fetches' = Append(fetches, FetchCall(r, "api", response.token[1]))
               /\ step' = "authOk"
  /\ UNCHANGED <<connState, cacheVars, sent, settled, pending, handlerCalls, io>>

\* the API's response arrives: request() returns it or throws
ApiResponds(r) ==
  /\ requests[r].stage = "api"
  /\ \E outcome \in {"done", "failed"} :
       requests' = [requests EXCEPT ![r] = [stage |-> outcome, token |-> requests[r].token]]
  /\ step' = "apiResponds"
  /\ UNCHANGED <<tokenCache, fetches, connState, cacheVars, sent, settled, pending,
                 handlerCalls, io>>

\* time passes
Wait ==
  /\ now < MaxTime
  /\ now' = now + 1
  /\ step' = "wait"
  /\ UNCHANGED <<cache, nextSweep, merged, tokenVars, connState, sent, settled, pending,
                 handlerCalls, io>>

TokenInit == Init /\ autoReconnect

TokenNext ==
  \/ \E r \in RequestIds : Request(r)
  \/ \E r \in RequestIds : AuthResponds(r)
  \/ \E r \in RequestIds : ApiResponds(r)
  \/ Wait

\* FeishuClient.request and the token cache.
SpecToken == TokenInit /\ [][TokenNext]_vars

\* the fetch calls made for the request r, oldest first
CallsOf(log, r) ==
  LET mine == SelectSeq(log, LAMBDA f : f.request = r)
  IN [i \in 1..Len(mine) |-> mine[i].kind]

\* this turn made exactly one fetch call, of this kind and with this token
OneFetch(kind, token) ==
  /\ Len(fetches') = Len(fetches) + 1
  /\ SubSeq(fetches', 1, Len(fetches)) = fetches
  /\ fetches'[Len(fetches')].kind = kind
  /\ fetches'[Len(fetches')].token = token

\* C22: a request issued while the cached token has more than 60 seconds
\* left calls the API with it and makes no auth call; a request issued later,
\* or with an empty cache, calls the auth endpoint first and then the API
\* with the token obtained; a failed auth call leaves the cache unchanged;
\* so a request makes at most one auth call, followed, if it succeeds, by
\* one API call.
C22_TokenIsCachedAndRefreshed ==
  /\ [][/\ step' = "request" =>
             /\ tokenCache' = tokenCache
             /\ IF tokenCache # None /\ tokenCache[1].expiresAt - Ms(now) > 60000
                THEN OneFetch("api", tokenCache[1].value)
                ELSE OneFetch("auth", <<>>)
        /\ step' = "authOk" =>
             /\ tokenCache' # None
             /\ OneFetch("api", tokenCache'[1].value)
             /\ CallsOf(fetches', fetches'[Len(fetches')].request) = <<"auth", "api">>
        /\ step' = "authFails" => (tokenCache' = tokenCache /\ fetches' = fetches)
        /\ step' = "apiResponds" => (tokenCache' = tokenCache /\ fetches' = fetches)]_vars
  /\ [](\A r \in RequestIds :
          /\ CallsOf(fetches, r) \in {<<>>, <<"auth">>, <<"api">>, <<"auth", "api">>}
          /\ requests[r].stage = "done" => CallsOf(fetches, r) \in {<<"api">>, <<"auth", "api">>})

\* C22 witness: the first request found the cache empty and obtained the
\* token "a"; the second, one tick later, called the API with the cached
\* token.
C22_Witness ==
  /\ step = "request"
  /\ now = 1
  /\ Len(fetches) = 3
  /\ CallsOf(fetches, 1) = <<"auth", "api">>
  /\ CallsOf(fetches, 2) = <<"api">>
  /\ fetches[3].token = <<97>>
  /\ tokenCache # None
  /\ tokenCache[1].value = <<97>>

\* --------------------------------------- one turn of the message listener
\* the JSON text of a pong payload with these members
PongPayload(members) == encodeString(JsonStringify(JObject(members)))

\* the hints a pong payload may carry, each present or not
PongHints ==
  LET Hint(key, present, seconds) ==
        IF present THEN <<[key |-> key, value |-> JNumber(seconds)]>> ELSE <<>>
  IN { Hint(PingIntervalKey, p, 3) \o Hint(ReconnectCountKey, c, 0)
         \o Hint(ReconnectIntervalKey, i, 5) \o Hint(ReconnectNonceKey, n, 6) :
         p \in BOOLEAN, c \in BOOLEAN, i \in BOOLEAN, n \in BOOLEAN }

\* control frames: pongs with hints, a pong whose PingInterval is null, pongs
\* whose payload is "{", "null", "5", empty or missing, and pings
ControlFrames ==
  { ControlFrame(MESSAGE_PONG, Some(PongPayload(hints))) : hints \in PongHints }
    \cup { ControlFrame(MESSAGE_PONG,
             Some(PongPayload(<<[key |-> PingIntervalKey, value |-> JNull],
                                [key |-> ReconnectCountKey, value |-> JNumber(4)]>>))),
           ControlFrame(MESSAGE_PONG, Some(<<123>>)),
           ControlFrame(MESSAGE_PONG, Some(<<110, 117, 108, 108>>)),
           ControlFrame(MESSAGE_PONG, Some(<<53>>)),
           ControlFrame(MESSAGE_PONG, Some(<<>>)),
           ControlFrame(MESSAGE_PONG, None),
           ControlFrame(MESSAGE_PING, None),
           ControlFrame(MESSAGE_PING, Some(PongPayload(<<[key |-> PingIntervalKey,
                                                          value |-> JNumber(3)]>>))) }

\* frames that carry a header key twice
DuplicateHeaderFrames ==
  LET H(key, value) == WsHeader(key, value)
      hint == Some(PongPayload(<<[key |-> PingIntervalKey, value |-> JNumber(3)]>>))
      Event(headers) == WsFrame(1, 2, 9, FRAME_TYPE_DATA, headers, Some(<<91, 93>>))
      m1 == H(HEADER_MESSAGE_ID, <<109, 49>>)
  IN { WsFrame(0, 0, 9, FRAME_TYPE_CONTROL,
               <<H(HEADER_TYPE, MESSAGE_PING), H(HEADER_TYPE, MESSAGE_PONG)>>, hint),
       WsFrame(0, 0, 9, FRAME_TYPE_CONTROL,
               <<H(HEADER_TYPE, MESSAGE_PONG), H(HEADER_TYPE, MESSAGE_PING)>>, hint),
       Event(<<H(HEADER_TYPE, MESSAGE_EVENT), m1, H(HEADER_MESSAGE_ID, <<109, 50>>)>>),
       Event(<<H(HEADER_TYPE, MESSAGE_EVENT), H(HEADER_TYPE, MESSAGE_PING), m1>>),
       Event(<<H(HEADER_TYPE, MESSAGE_PING), H(HEADER_TYPE, MESSAGE_EVENT), m1>>),
       Event(<<H(HEADER_TYPE, MESSAGE_EVENT), m1, H(HEADER_SUM, <<50>>),
               H(HEADER_SUM, <<49>>)>>),
       Event(<<H(HEADER_TYPE, MESSAGE_EVENT), m1, H(HEADER_SUM, <<50>>),
               H(HEADER_SEQ, <<48>>), H(HEADER_SEQ, <<49>>)>>),
       Event(<<H(HEADER_TYPE, MESSAGE_EVENT), m1, H(HEADER_TRACE_ID, <<116, 49>>),
               H(HEADER_TRACE_ID, <<116, 50>>)>>) }

\* the session configs a frame may meet
SessionConfigs == {None} \cup { Some(ConnectConfig(cc)) : cc \in ClientConfigs }

FramesInit ==
  /\ Constructed
  /\ autoReconnect
  /\ io \in { [frame |-> f, config |-> cfg, turn |-> None] :
                f \in ControlFrames \cup DuplicateHeaderFrames \cup {WholeEvent, FirstChunk},
                cfg \in SessionConfigs }

\* the listener's turn for the frame, received as its bytes, with a handler
\* registered
ListenerTurn ==
  /\ io.turn = None
  /\ io' = [io EXCEPT
              !.turn = Some(Dispatch(decodeFrame(encodeFrame(io.frame)), io.config,
                                     cache, now, TRUE))]
  /\ step' = "listener"
  /\ UNCHANGED <<connState, cacheVars, sent, settled, pending, handlerCalls, tokenVars>>

FramesNext == ListenerTurn

\* The message listener applied to one frame.
SpecFrames == FramesInit /\ [][FramesNext]_vars

\* the frame is a control frame with one type header, of this type
ControlOfType(frame, type) ==
  /\ frame.method = FRAME_TYPE_CONTROL
  /\ frame.headers = <<WsHeader(HEADER_TYPE, type)>>

\* the number the pong payload of the frame gives for the key; None when
\* there is no payload, or it is no object or has no number under the key
HintOf(frame, key) ==
  LET parsed == JsonParse(decodeString(frame.payload[1]))
  IN IF /\ frame.payload # None
        /\ parsed.ok
        /\ parsed.value.type = "object"
        /\ Property(parsed.value, key) # None
        /\ Property(parsed.value, key)[1].type = "number"
     THEN Some(Property(parsed.value, key)[1].n)
     ELSE None

\* the pong payload of the frame is the text of a JSON value other than null
Parseable(frame) ==
  /\ JsonParse(decodeString(frame.payload[1])).ok
  /\ JsonParse(decodeString(frame.payload[1])).value.type # "null"

\* C23: a pong with a payload sets exactly the hints its payload carries, the
\* intervals times 1000, and keeps the other hints, the connect URL, the
\* device id and the service id; a ping, a pong without payload and a pong
\* whose payload does not parse leave the session config as it is; and no
\* control frame touches the cache or invokes the handler.
C23_PongUpdatesPresentHints ==
  (io.turn # None /\ io.frame.method = FRAME_TYPE_CONTROL) =>
    /\ io.turn[1].cache = cache
    /\ io.turn[1].merged = None
    /\ ~io.turn[1].invoke
    /\ ( \/ ControlOfType(io.frame, MESSAGE_PING)
         \/ io.config = None
         \/ ControlOfType(io.frame, MESSAGE_PONG)
              /\ (io.frame.payload = None \/ ~Parseable(io.frame)) )
         => io.turn[1].wsConfig = io.config
    /\ ( /\ ControlOfType(io.frame, MESSAGE_PONG)
         /\ io.config # None
         /\ io.frame.payload # None
         /\ Parseable(io.frame) )
         => LET old == io.config[1]
                new == io.turn[1].wsConfig[1]
                Seconds(key, before) ==
                  IF HintOf(io.frame, key) = None THEN before
                  ELSE HintOf(io.frame, key)[1] * 1000
            IN /\ io.turn[1].wsConfig # None
               /\ new.pingInterval = Seconds(PingIntervalKey, old.pingInterval)
               /\ new.reconnectInterval = Seconds(ReconnectIntervalKey, old.reconnectInterval)
               /\ new.reconnectNonce = Seconds(ReconnectNonceKey, old.reconnectNonce)
               /\ new.reconnectCount =
                    Coalesce(HintOf(io.frame, ReconnectCountKey), old.reconnectCount)
               /\ new.connectUrl = old.connectUrl
               /\ new.deviceId = old.deviceId
               /\ new.serviceId = old.serviceId

\* C23 witness: a pong carrying ReconnectCount 0 and ReconnectNonce 6, and no
\* other hint, met the config of a negotiation without hints: the limit is 0,
\* the jitter 6000 ms, the ping interval still 120000 ms.
C23_Witness ==
  /\ io.turn # None
  /\ ControlOfType(io.frame, MESSAGE_PONG)
  /\ io.frame.payload # None
  /\ HintOf(io.frame, PingIntervalKey) = None
  /\ HintOf(io.frame, ReconnectIntervalKey) = None
  /\ HintOf(io.frame, ReconnectCountKey) = Some(0)
  /\ HintOf(io.frame, ReconnectNonceKey) = Some(6)
  /\ io.config # None
  /\ io.config[1].pingInterval = 120000
  /\ io.turn[1].wsConfig[1].pingInterval = 120000
  /\ io.turn[1].wsConfig[1].reconnectCount = 0
  /\ io.turn[1].wsConfig[1].reconnectNonce = 6000

\* the value of the first header of the key
First(frame, key) == FindHeader(frame.headers, key)

\* C24: every header lookup resolves to the first header of its key: a
\* control frame is a ping or a pong by its first type header, a data frame is
\* an event by its first type header, and the mergeData call of an event
\* frame takes the first message_id, sum, seq and trace_id.
C24_FirstHeaderOfAKey ==
  io.turn # None =>
    /\ ( /\ io.frame.method = FRAME_TYPE_CONTROL
         /\ First(io.frame, HEADER_TYPE) # Some(MESSAGE_PONG) )
         => io.turn[1].wsConfig = io.config
    /\ ( /\ io.frame.method = FRAME_TYPE_CONTROL
         /\ First(io.frame, HEADER_TYPE) = Some(MESSAGE_PONG)
         /\ io.config # None
         /\ HintOf(io.frame, PingIntervalKey) # None )
         => io.turn[1].wsConfig[1].pingInterval = HintOf(io.frame, PingIntervalKey)[1] * 1000
    /\ io.frame.method = FRAME_TYPE_DATA =>
         IF First(io.frame, HEADER_TYPE) = Some(MESSAGE_EVENT)
         THEN /\ io.turn[1].merged # None
              /\ io.turn[1].merged[1].params =
                   [messageId |-> Coalesce(First(io.frame, HEADER_MESSAGE_ID), <<>>),
                    sum |-> NumberOf(Coalesce(First(io.frame, HEADER_SUM), <<49>>)),
                    seq |-> NumberOf(Coalesce(First(io.frame, HEADER_SEQ), <<48>>)),
                    traceId |-> Coalesce(First(io.frame, HEADER_TRACE_ID), <<>>),
                    data |-> io.frame.payload[1]]
         ELSE io.turn[1].merged = None

\* ------------------------------------------- the response to one event
\* an event frame that already carries a biz_rt header, and a service id and
\* ids of its own
EchoedEvent ==
  WsFrame(5, 7, 3, FRAME_TYPE_DATA,
          <<WsHeader(HEADER_BIZ_RT, <<57>>), WsHeader(HEADER_TYPE, MESSAGE_EVENT),
            WsHeader(HEADER_MESSAGE_ID, <<109, 49>>)>>,
          Some(<<91, 93>>))

\* the frames whose response is looked at, each received by a cache that is
\* empty or holds the first chunk of "m2"
ReplyFrames == DuplicateHeaderFrames \cup {WholeEvent, FirstChunk, SecondChunk, EchoedEvent}

\* the cache the frame meets: as constructed, or after the frame `prior`
CacheAfter(prior, c, t) ==
  IF prior = None THEN c
  ELSE Dispatch(decodeFrame(encodeFrame(prior[1])), None, c, t, TRUE).cache

\* the listener's turn for the frame of io
Received(c, t) ==
  Dispatch(decodeFrame(encodeFrame(io.frame)), None, CacheAfter(io.prior, c, t), t, TRUE)

ReplyInit ==
  /\ Constructed
  /\ autoReconnect
  /\ io \in { [frame |-> f, prior |-> p, took |-> d, result |-> r, reply |-> None] :
                f \in ReplyFrames, p \in {None, Some(FirstChunk)},
                d \in 0..MaxTime, r \in HandlerResults }

\* handleEventFrame for the frame: the handler is invoked, settles io.took
\* ticks later, and the response is written to the open socket
Reply ==
  /\ io.reply = None
  /\ Received(cache, now).invoke
  /\ io' = [io EXCEPT
              !.reply = Some(encodeFrame(ResponseFrame(Received(cache, now).frame,
                                                       io.result, Ms(io.took))))]
  /\ step' = "reply"
  /\ UNCHANGED <<connState, cacheVars, sent, settled, pending, handlerCalls, tokenVars>>

ReplyNext == Reply

\* handleEventFrame from the received bytes of a frame to the bytes of its
\* response.
SpecReply == ReplyInit /\ [][ReplyNext]_vars

\* the response, as its receiver decodes it
Response == decodeFrame(io.reply[1])

\* the text is {"code":200} or {"code":200,"data":"<string>"}
StatusPayload(text) ==
  /\ JsonParse(text).ok
  /\ JsonParse(text).value.type = "object"
  /\ \/ JsonParse(text).value.members = <<[key |-> CodeKey, value |-> JNumber(STATUS_OK)]>>
     \/ /\ Len(JsonParse(text).value.members) = 2
        /\ JsonParse(text).value.members[1] = [key |-> CodeKey, value |-> JNumber(STATUS_OK)]
        /\ JsonParse(text).value.members[2].key = DataKey
        /\ JsonParse(text).value.members[2].value.type = "string"

\* C25: the response to an event is a DATA frame with the sequence id, the
\* log id and the service id of the frame that completed the message, its
\* headers in their order followed by one biz_rt header giving the handling
\* time in milliseconds, and a payload {code: 200, data?}.
C25_ResponseEchoesTheFrame ==
  io.reply # None =>
    /\ Response.ok
    /\ Response.frame.method = FRAME_TYPE_DATA
    /\ Response.frame.SeqID = io.frame.SeqID
    /\ Response.frame.LogID = io.frame.LogID
    /\ Response.frame.service = io.frame.service
    /\ Response.frame.headers =
         io.frame.headers \o <<WsHeader(HEADER_BIZ_RT, Digits(io.took * (ttlMs \div TicksPerTtl)))>>
    /\ Response.frame.payload # None
    /\ StatusPayload(decodeString(Response.frame.payload[1]))

\* C25 witness: the second chunk of "m2" completed the message, the handler
\* took two ticks, and the response carries the chunk's headers and a biz_rt
\* of "10000".
C25_Witness ==
  /\ io.reply # None
  /\ io.frame = SecondChunk
  /\ io.prior = Some(FirstChunk)
  /\ io.took = 2
  /\ Len(Response.frame.headers) = Len(SecondChunk.headers) + 1
  /\ Response.frame.headers[Len(Response.frame.headers)].value = <<49, 48, 48, 48, 48>>

\* ------------------------------------- the chunks of one message, redelivered
\* the deliveries of a message of MaxSum chunks: the announced chunk count,
\* an index and its bytes
Deliveries == [sum : {MaxSum}, seq : 0..(MaxSum - 1), data : Chunks]

RECURSIVE SequencesOf(_, _)
SequencesOf(S, n) ==
  IF n = 0 THEN {<<>>}
  ELSE { Append(q, x) : q \in SequencesOf(S, n - 1), x \in S }

ChunksInit ==
  /\ Constructed
  /\ autoReconnect
  /\ io \in { [deliveries |-> d, outcomes |-> <<>>] : d \in SequencesOf(Deliveries, MaxDeliveries) }

\* the next delivery reaches mergeData
DeliverChunk ==
  /\ Len(io.outcomes) < Len(io.deliveries)
  /\ \E params \in { [messageId |-> <<97>>, traceId |-> <<116>>,
                      sum |-> io.deliveries[Len(io.outcomes) + 1].sum,
                      seq |-> io.deliveries[Len(io.outcomes) + 1].seq,
                      data |-> io.deliveries[Len(io.outcomes) + 1].data] } :
       \E r \in {mergeData(cache, params, now)} :
          /\ cache' = r.cache
          /\ merged' = Some([params |-> params, outcome |-> r.outcome])
          /\ io' = [io EXCEPT !.outcomes = Append(@, r.outcome)]
  /\ step' = "deliverChunk"
  /\ UNCHANGED <<now, nextSweep, connState, sent, settled, pending, handlerCalls, tokenVars>>

ChunksNext == DeliverChunk

\* One message of MaxSum chunks whose chunks arrive in any order, some of
\* them more than once, within one TTL.
SpecChunks == ChunksInit /\ [][ChunksNext]_vars

\* the deliveries, up to the k-th, made since the message last completed
Since(k) ==
  { j \in 1..k : \A i \in j..(k - 1) : io.outcomes[i].kind # "value" }

\* the delivery of the index that came last among the deliveries up to the
\* k-th
LastOf(k, index) ==
  CHOOSE j \in Since(k) :
    /\ io.deliveries[j].seq = index
    /\ \A i \in Since(k) : io.deliveries[i].seq = index => i <= j

\* the bytes delivered last for each index, joined in index order
RECURSIVE LastBytes(_, _)
LastBytes(k, n) ==
  IF n = 0 THEN <<>> ELSE LastBytes(k, n - 1) \o io.deliveries[LastOf(k, n - 1)].data

\* C26: of the deliveries of a message since it last completed, a delivery
\* returns null while an index has not been delivered, however often the
\* others were; once every index has been delivered, a delivery returns the
\* parse of the bytes delivered last for each index, joined in index order.
C26_DuplicateChunkLastWins ==
  \A k \in 1..Len(io.outcomes) :
    IF { io.deliveries[j].seq : j \in Since(k) } # 0..(MaxSum - 1)
    THEN io.outcomes[k] = ReturnsNull
    ELSE io.outcomes[k] =
           IF JsonParse(decodeString(LastBytes(k, MaxSum))).ok
           THEN Returns(JsonParse(decodeString(LastBytes(k, MaxSum))).value)
           ELSE Throws

\* C26 witness: index 0 was delivered as "null" and again as "[", both
\* deliveries returned null, and the delivery of index 1, "]", returned [].
C26_Witness ==
  /\ io.deliveries = <<[sum |-> MaxSum, seq |-> 0, data |-> <<110, 117, 108, 108>>],
                       [sum |-> MaxSum, seq |-> 0, data |-> <<91>>],
                       [sum |-> MaxSum, seq |-> 1, data |-> <<93>>]>>
  /\ io.outcomes = <<ReturnsNull, ReturnsNull, Returns(JArray(<<>>))>>

\* ------------------------------------------------ sequence ids and log ids
\* A bigint that is not negative, as its 7-bit groups, low group first,
\* without zero groups at the high end: <<>> is 0n.
RECURSIVE Normalized(_)
Normalized(groups) ==
  IF groups = <<>> \/ groups[Len(groups)] # 0 THEN groups
  ELSE Normalized(SubSeq(groups, 1, Len(groups) - 1))

\* encodeVarint on a bigint: every group but the highest gets the
\* continuation bit
encodeVarintBig(value) ==
  IF value = <<>> THEN <<0>>
  ELSE [i \in 1..Len(value) |-> IF i < Len(value) THEN value[i] + 128 ELSE value[i]]

\* decodeVarint with its bigint result: the groups of the bytes up to the
\* first byte without continuation bit, however many there are
RECURSIVE DecodeVarintBigLoop(_, _, _)
DecodeVarintBigLoop(buffer, cursor, groups) ==
  IF cursor < Len(buffer)
  THEN IF buffer[cursor + 1] < 128
       THEN [ok |-> TRUE, value |-> Normalized(Append(groups, buffer[cursor + 1] % 128)),
             offset |-> cursor + 1]
       ELSE DecodeVarintBigLoop(buffer, cursor + 1, Append(groups, buffer[cursor + 1] % 128))
  ELSE [ok |-> FALSE, value |-> <<>>, offset |-> 0]

decodeVarintBig(buffer, offset) == DecodeVarintBigLoop(buffer, offset, <<>>)

\* the bytes encodeFrame writes for SeqID (field 1) or LogID (field 2)
EncodeId(fieldNumber, value) == encodeTag(fieldNumber, WIRE_VARINT) \o encodeVarintBig(value)

\* decodeFrame on a buffer that holds one varint field: the id it assigns to
\* frame.SeqID or frame.LogID
DecodeId(buffer) ==
  LET tagInfo == decodeVarint(buffer, 0)
      field == decodeVarintBig(buffer, tagInfo.offset)
  IN IF ~tagInfo.ok \/ tagInfo.value % 8 # WIRE_VARINT \/ ~field.ok
     THEN [ok |-> FALSE, fieldNumber |-> 0, value |-> <<>>]
     ELSE [ok |-> TRUE, fieldNumber |-> tagInfo.value \div 8, value |-> field.value]

\* 2^63 - 1, 2^63 and 2^64 - 1
MaxInt64 == [i \in 1..9 |-> 127]
TopBit == [i \in 1..10 |-> IF i = 10 THEN 1 ELSE 0]
MaxUint64 == [i \in 1..10 |-> IF i = 10 THEN 1 ELSE 127]

\* ids of the range: 0, 1, 127, 128, 300 and the values around the top bit
Ids ==
  { <<>>, <<1>>, <<127>>, <<0, 1>>, <<44, 2>>, MaxInt64, TopBit, MaxUint64,
    [TopBit EXCEPT ![1] = 1], [MaxUint64 EXCEPT ![1] = 126] }

\* varints a peer may send: 1 to 11 bytes, groups of all ones or all zeros
\* below a last group of 0, 1, 2 or 127
WireVarints ==
  UNION { { [i \in 1..n |-> IF i < n THEN 128 + low[i] ELSE last] :
              low \in [1..(n - 1) -> {0, 127}], last \in {0, 1, 2, 127} } : n \in 1..11 }

IdsInit ==
  /\ Constructed
  /\ autoReconnect
  /\ io \in { [fieldNumber |-> f, id |-> Some(v), bytes |-> None, decoded |-> None] :
                f \in 1..2, v \in Ids }
         \cup { [fieldNumber |-> f, id |-> None,
                 bytes |-> Some(encodeTag(f, WIRE_VARINT) \o w), decoded |-> None] :
                f \in 1..2, w \in WireVarints }

\* encodeFrame writes the id
WriteId ==
  /\ io.bytes = None
  /\ io' = [io EXCEPT !.bytes = Some(EncodeId(io.fieldNumber, io.id[1]))]
  /\ step' = "writeId"
  /\ UNCHANGED <<connState, cacheVars, sent, settled, pending, handlerCalls, tokenVars>>

\* decodeFrame reads the id
ReadId ==
  /\ io.bytes # None
  /\ io.decoded = None
  /\ io' = [io EXCEPT !.decoded = Some(DecodeId(io.bytes[1]))]
  /\ step' = "readId"
  /\ UNCHANGED <<connState, cacheVars, sent, settled, pending, handlerCalls, tokenVars>>

IdsNext ==
  \/ WriteId
  \/ ReadId

\* SeqID and LogID through encodeFrame and decodeFrame.
SpecIds == IdsInit /\ [][IdsNext]_vars

\* the bigint lies in 0..2^64-1
IsUint64(value) == Len(value) < 10 \/ (Len(value) = 10 /\ value[10] = 1)

\* an id written by encodeFrame is read back as it was
IdRoundTrip ==
  (io.id # None /\ io.decoded # None) =>
    io.decoded[1] = [ok |-> TRUE, fieldNumber |-> io.fieldNumber, value |-> io.id[1]]

\* C27: an id of 0..2^64-1 that encodeFrame writes is read back unchanged by
\* decodeFrame, and every id decodeFrame reads lies in 0..2^64-1.
C27_IdsAreUnsigned64 ==
  /\ IdRoundTrip
  /\ (io.decoded # None /\ io.decoded[1].ok) => IsUint64(io.decoded[1].value)

\* ----------------------------------- events of a client that is restarted
RestartNext ==
  \/ Start
  \/ Stop
  \/ NegotiationOk
  \/ \E s \in SocketIds : SocketOpen(s)
  \/ \E s \in SocketIds : SocketDelivers(s, Binary(encodeFrame(WholeEvent)))
  \/ HandlerSettles

\* A client that is stopped and started again while handlers are pending and
\* the closing handshake of the old socket is still under way; the sockets
\* deliver the event "m1".
SpecRestart == EventsInit /\ [][RestartNext]_vars

\* C28: the response of a handler invocation is sent, if at all, on the
\* socket that delivered the event.
C28_ResponseOnTheEventsSocket ==
  [][step' \in {"handlerResolves", "handlerRejects"} =>
       \A i \in 1..Len(sent') : sent'[i].socket = settled'[1].socket]_vars

\* the turn is the "close" event of socket s
ClosedIn(s) == step' = "close" /\ sockets[s].state # "free" /\ sockets'[s].state = "free"

\* the turn is the "open" event of socket s
OpenedIn(s) == step' = "open" /\ sockets[s].state = "connecting" /\ sockets'[s].state = "open"

\* C29: while the client has a current socket, the "close" or "open" event of
\* another socket leaves the socket handle as it is, cancels no ping timer
\* and starts no negotiation request.
C29_SupersededSocketIsIgnored ==
  [][\A s \in SocketIds :
       (ws # 0 /\ s # ws /\ (ClosedIn(s) \/ OpenedIn(s))) =>
         /\ ws' = ws
         /\ PendingTimers("ping")' >= PendingTimers("ping")
         /\ negotiating' <= negotiating]_vars

\* C30: with auto-reconnect disabled, a negotiation request is started in a
\* turn of start() only, and no turn arms a reconnect timer.
C30_NoRetryWithoutAutoReconnect ==
  [][~autoReconnect =>
       /\ negotiating' > negotiating => step' = "start"
       /\ PendingTimers("reconnect")' <= PendingTimers("reconnect")]_vars

\* ------------------------- chunks that do not fit the announced chunk count
\* deliveries for one message id that announce 1..MaxSum chunks and carry an
\* index inside or outside that range: "[" or "]"
AnnouncedDeliveries == [sum : 1..MaxSum, seq : NotAnIndex..MaxSum, data : {<<91>>, <<93>>}]

AnnouncedInit ==
  /\ Constructed
  /\ autoReconnect
  /\ io \in { [deliveries |-> d, outcomes |-> <<>>] :
                d \in SequencesOf(AnnouncedDeliveries, MaxDeliveries) }

\* One message id whose deliveries disagree on the chunk count or carry an
\* index outside of it, within one TTL.
SpecAnnounced == AnnouncedInit /\ [][ChunksNext]_vars

\* the chunk count announced by the first of the deliveries Since(k)
AnnouncedSum(k) == io.deliveries[CHOOSE j \in Since(k) : \A i \in Since(k) : j <= i].sum

\* the deliveries up to the k-th that belong to the message: they announce
\* its chunk count and their index is one of its indices
Belonging(k) ==
  { j \in Since(k) : /\ io.deliveries[j].sum = AnnouncedSum(k)
                     /\ io.deliveries[j].seq \in 0..(AnnouncedSum(k) - 1) }

\* the bytes of the last belonging delivery of each index below n, joined in
\* index order
RECURSIVE BelongingBytes(_, _)
BelongingBytes(k, n) ==
  IF n = 0 THEN <<>>
  ELSE BelongingBytes(k, n - 1)
         \o io.deliveries[CHOOSE j \in Belonging(k) :
                            /\ io.deliveries[j].seq = n - 1
                            /\ \A i \in Belonging(k) : io.deliveries[i].seq = n - 1 => i <= j].data

\* C31: a delivery returns null until every index of the chunk count that
\* the message's first delivery announced has been delivered by a chunk
\* announcing that count, and then the parser is given the bytes of those
\* chunks in index order and nothing else; deliveries with an index outside
\* the count or with another count add nothing and complete nothing.
C31_OnlyAnnouncedIndicesAssemble ==
  \A k \in 1..Len(io.outcomes) :
    IF { io.deliveries[j].seq : j \in Belonging(k) } # 0..(AnnouncedSum(k) - 1)
    THEN io.outcomes[k] = ReturnsNull
    ELSE io.outcomes[k] =
           IF JsonParse(decodeString(BelongingBytes(k, AnnouncedSum(k)))).ok
           THEN Returns(JsonParse(decodeString(BelongingBytes(k, AnnouncedSum(k)))).value)
           ELSE Throws

\* every slot of the entry holds a chunk
FullyReceived(entry) ==
  /\ Len(entry.buffer) > 0
  /\ \A i \in 1..Len(entry.buffer) : entry.buffer[i].k = "data"

\* C32: after a mergeData call, returned or thrown, no entry of the cache has
\* all of its slots filled.
C32_NoFullEntryStaysCached ==
  \A id \in DOMAIN cache : ~FullyReceived(cache[id])

\* the request with another secret, timestamp header and nonce header
WithSigningInputs(params, secret, timestamp, nonce) ==
  [params EXCEPT !.verification.appSecret = secret,
                 !.headers.timestamp = timestamp,
                 !.headers.nonce = nonce]

\* C33: without a signature header, the result of parseFeishuCallback, error
\* or challenge or event, is the result of the same request under any other
\* secret, timestamp header and nonce header.
C33_UnsignedResultIgnoresSigningInputs ==
  (io.result # None /\ ~SignaturePresent(io.params)) =>
    \A secret \in {None, Some(<<115>>), Some(<<32, 115, 32>>), Some(<<116>>)},
       timestamp \in {None, Some(<<32, 49>>), Some(<<57>>)},
       nonce \in {None, Some(<<50>>), Some(<<57>>)} :
      parseFeishuCallback(WithSigningInputs(io.params, secret, timestamp, nonce)) = io.result[1]

\* C33 witness: a request without signature header, with the secret "t", a
\* timestamp and a nonce, has returned a challenge.
C33_Witness ==
  /\ io.result # None
  /\ io.params.headers.signature = None
  /\ io.params.verification.appSecret = Some(<<116>>)
  /\ io.params.headers.timestamp # None
  /\ io.params.headers.nonce # None
  /\ io.result[1].kind = "challenge"

(***************************************************************************)
(* Reconnection under fairness.  The negotiation answer carries no         *)
(* ReconnectCount, so the limit is the default of pullConnectConfig        *)
(* (ReconnectCount ?? -1, unlimited); stop() is never called.              *)
(***************************************************************************)

\* pullConnectConfig returns true with the default (unlimited) limit.
UnlimitedOk == NegotiationOk /\ wsConfig'[1].reconnectCount = DefaultReconnectLimit

LiveNext ==
  \/ FirstStart
  \/ UnlimitedOk
  \/ NegotiationFails
  \/ \E s \in SocketIds : SocketOpen(s)
  \/ \E s \in SocketIds : SocketError(s)
  \/ \E s \in SocketIds : SocketClose(s)
  \/ PingTimerFires
  \/ ReconnectTimerFires

\* Timers fire, negotiation calls return and eventually succeed, a
\* connecting socket eventually opens, a failed socket delivers its close.
Fairness ==
  /\ SF_vars(ReconnectTimerFires)
  /\ SF_vars(PingTimerFires)
  /\ WF_vars(UnlimitedOk \/ NegotiationFails)
  /\ SF_vars(UnlimitedOk)
  /\ \A s \in SocketIds : SF_vars(SocketOpen(s))
  /\ \A s \in SocketIds : SF_vars(sockets[s].state = "failed" /\ SocketClose(s))

\* The bounds of the model leave room for every action.
WithinBounds ==
  /\ negotiating < MaxCalls
  /\ BagCardinality(timers) < MaxTimers
  /\ reconnectCount < MaxReconnectCount
  /\ \E s \in SocketIds : sockets[s].state = "free"

\* Behaviours that do not stay at a bound of the model forever.
SpecLive == EventsInit /\ [][LiveNext]_vars /\ Fairness /\ []<>WithinBounds

\* get isConnected(): this.ws !== null && this.ws.readyState === 1
isConnected == ws # 0 /\ sockets[ws].state = "open"

\* C34: with auto-reconnect, an unlimited reconnect limit and no stop(),
\* every socket close is eventually followed by a negotiation attempt, and
\* when negotiations return and succeed and sockets open, the client is
\* eventually connected again.
C34_CloseLeadsBackToOpen ==
  /\ (step = "close") ~> (negotiating > 0 \/ step \in {"negotiationOk", "negotiationFails"})
  /\ (step = "close") ~> isConnected
====
